---- MODULE Spec2Model ----
(***************************************************************************)
(* SportsSignal: the rating replay (EloCalculator), the rolling feature    *)
(* store (RollingStatsComputer) and the scheduled jobs that drive them.    *)
(*                                                                         *)
(* Numbers.  Python floats are modelled in fixed point:                    *)
(*   ratings                  hundredths of a rating point (1500 = 150000) *)
(*   probabilities, K, powers thousandths                                  *)
(* None (a NULL column) is the value -1; scores and seasons are >= 0.      *)
(***************************************************************************)
EXTENDS Integers, Sequences, FiniteSets, TLC

(* ------------------------------ bounds --------------------------------- *)
MaxGames == 2      \* games the ingestion stores in one behaviour
MaxDays  == 2      \* daily job cycles in one behaviour
PriorGames == 4    \* completed games stored before the games to predict
MaxHistory == 11   \* longest team history passed to _compute_stats_from_history
MaxTotal == 120    \* largest total (hundredths of a point) passed to _distribute_score

(* ------------------------- program constants --------------------------- *)
None == -1
INITIAL_ELO == 1500
K_BASE == 20
HOME_ADVANTAGE == 75
SEASON_REGRESSION_PCT == 75
COMMIT_EVERY == 500
SHARE_UNIT == 12   \* a period share of 1.0, in twelfths
MIN_GAMES_PLAYED == 3
DEFAULT_REST_DAYS == 3
MAX_REST_DAYS == 7
SPORT_AWARE_MIN == 14
MAX_RETRIES == 3

Teams  == {"A", "B", "C", "D", "E"}
TeamSport == [t \in Teams |-> IF t \in {"A", "B", "C"} THEN "NBA" ELSE "NHL"]

(* get_all_sports(): the configured sports the jobs loop over *)
AllSports == {"NBA", "NHL"}

(* the sport whose games the daily cycle stores and whose jobs it follows *)
Sports == {"NBA"}

(* per-sport configuration; a sport without an entry has no configuration *)
SPORT_CONFIGS ==
    [s \in AllSports |->
        IF s = "NBA"
        THEN [elo_k_base |-> K_BASE,
              elo_home_advantage |-> HOME_ADVANTAGE,
              elo_season_regression |-> SEASON_REGRESSION_PCT,
              default_ppg |-> 100, num_periods |-> 4,
              spread_calibration |-> 120]      \* tenths: 12.0
        ELSE [elo_k_base |-> 16,
              elo_home_advantage |-> 30,
              elo_season_regression |-> 75,
              default_ppg |-> 3, num_periods |-> 3,
              spread_calibration |-> 25]]      \* tenths: 2.5

get_sport_config(sport) == SPORT_CONFIGS[sport]

(* a sport name a caller can pass that has no entry in SPORT_CONFIGS *)
UnknownSports == {"XFL"}

(* mutant: every sport name passes the lookup *)
HasConfig_Always(sport) == TRUE

(* `if key not in SPORT_CONFIGS: raise KeyError` *)
HasConfig(sport) == sport \in DOMAIN SPORT_CONFIGS

(* ------------------------------ helpers -------------------------------- *)
Abs(x) == IF x < 0 THEN 0 - x ELSE x
Min(a, b) == IF a < b THEN a ELSE b
Range(s) == {s[i] : i \in 1..Len(s)}

(* 10^(2^b/400) in thousandths, b = 0..8 *)
Pow10Bit == <<1006, 1012, 1023, 1047, 1096, 1202, 1445, 2089, 4365>>

RECURSIVE Pow10Acc(_, _, _)
Pow10Acc(d, b, acc) ==
    IF b > 9 THEN acc
    ELSE Pow10Acc(d \div 2, b + 1,
                  IF d % 2 = 1 THEN (acc * Pow10Bit[b]) \div 1000 ELSE acc)

(* 10.0 ** (x / 400.0), x in hundredths of a point, result in thousandths; *)
(* the exponent is taken to whole points and |x| is capped at 511 points   *)
Pow10(x) ==
    LET pts == Min(Abs(x) \div 100, 511)
        p   == Pow10Acc(pts, 1, 1000)
    IN  IF x >= 0 THEN p ELSE 1000000 \div p

(* n ** 0.8 in thousandths, for the margins the stored scores can give *)
Pow08(n) ==
    CASE n = 3 -> 2408 [] n = 4 -> 3031 [] n = 5 -> 3624 [] n = 6 -> 4193
      [] n = 7 -> 4743 [] n = 8 -> 5278 [] n = 9 -> 5800 [] n = 10 -> 6310

(* ---------------------------- EloCalculator ---------------------------- *)
k_factor(cfg, mov, elo_diff) ==
    (cfg.elo_k_base * Pow08(Abs(mov) + 3) * 1000)
        \div (7500 + (6 * Abs(elo_diff)) \div 100)

calculate_expected(elo_a, elo_b) ==
    1000000 \div (1000 + Pow10(elo_b - elo_a))

(* mutant: the away expectation is taken without the home advantage *)
update_elo_AwayIgnoresAdvantage(cfg, home_elo, away_elo, home_score, away_score) ==
    LET expected_home == calculate_expected(home_elo + cfg.elo_home_advantage * 100, away_elo)
        expected_away == calculate_expected(away_elo, home_elo)
        home_won == IF home_score > away_score THEN 1000 ELSE 0
        k        == k_factor(cfg, home_score - away_score, home_elo - away_elo)
    IN  [new_home |-> home_elo + (k * (home_won - expected_home)) \div 10000,
         new_away |-> away_elo + (k * ((1000 - home_won) - expected_away)) \div 10000,
         expected_home |-> expected_home, expected_away |-> expected_away,
         home_won |-> home_won]

(* the returned pair, with the locals expected_home, expected_away and     *)
(* home_won (thousandths) it was computed from                             *)
update_elo(cfg, home_elo, away_elo, home_score, away_score) ==
    LET expected_home == calculate_expected(home_elo + cfg.elo_home_advantage * 100, away_elo)
        expected_away == calculate_expected(away_elo, home_elo + cfg.elo_home_advantage * 100)
        home_won == IF home_score > away_score THEN 1000 ELSE 0
        mov      == home_score - away_score
        elo_diff == home_elo - away_elo
        k        == k_factor(cfg, mov, elo_diff)
    IN  [new_home |-> home_elo + (k * (home_won - expected_home)) \div 10000,
         new_away |-> away_elo + (k * ((1000 - home_won) - expected_away)) \div 10000,
         expected_home |-> expected_home, expected_away |-> expected_away,
         home_won |-> home_won]

season_reset(cfg, elo) ==
    (cfg.elo_season_regression * elo
        + (100 - cfg.elo_season_regression) * (INITIAL_ELO * 100)) \div 100

(* ------------------------------- state --------------------------------- *)
VARIABLES
    games,     \* table games: rows in insertion order, id = position
    db,        \* committed tables: team_elo (Team.current_elo),
               \*   elo_history (team_elo_history), rolling_stats (team_rolling_stats)
    sched,     \* the daily cron cycle: [phase, day]
    elo,       \* the running calculate_all_elos call and its session
    roll,      \* the running compute_all call and its session
    basis,     \* ghost: the stored game set each committed result was computed from
    pe,        \* the PredictionEngine, its batch run and the predictions table
    dist,      \* a call of _distribute_score: its arguments and its result
    fcall,     \* a call of another function on its own: [pc, fn, args, out],
               \*   for _request also its loop variable and what it did so far
    calc       \* two callers of calculate_all_elos on one sport, each with its
               \*   own session, and the id sequence of team_elo_history

vars == <<games, db, sched, elo, roll, basis, pe, dist, fcall, calc>>

(* rows the ingestion can store: teams and final scores of a game *)
GameKinds ==
    { [home_team_id |-> "A", away_team_id |-> "B", home_score |-> 3, away_score |-> 1],
      [home_team_id |-> "C", away_team_id |-> "A", home_score |-> 1, away_score |-> 2],
      [home_team_id |-> "A", away_team_id |-> "B", home_score |-> None, away_score |-> 1],
      [home_team_id |-> "C", away_team_id |-> "A", home_score |-> 1, away_score |-> None] }

EmptyMap == [x \in {} |-> 0]

(* no model artifact on disk for any sport, nothing loaded, no batch, no      *)
(* stored prediction; an optional value is <<>> (None) or <<v>>; job is the   *)
(* position of generate_predictions_job in get_all_sports() (0: not running)  *)
(* and runs (ghost) how the run of each sport it has passed ended             *)
PeIdle ==
    [pc |-> "idle", models_dir |-> [s \in AllSports |-> <<>>], batch |-> <<>>, i |-> 0,
     predictions |-> <<>>, stored |-> <<>>, feat |-> <<>>, vec |-> <<>>,
     rounded |-> <<>>, out |-> <<>>, job |-> 0, runs |-> <<>>]

DistIdle == [pc |-> "idle", total |-> 0, pcts |-> <<>>, tie_up |-> FALSE, out |-> <<>>]

CallIdle == [pc |-> "idle", fn |-> "", args |-> <<>>, out |-> <<>>]

(* the scheduled job (_update_elos_for_sport) and POST /admin/calculate-elos *)
Callers == {"job", "admin"}

(* a caller's session before its first statement: no pending team update,  *)
(* no pending delete, nothing replayed; `end` (ghost) is how the call ended *)
CalcRunIdle ==
    [pc |-> "idle", sport |-> "NBA", team_elo |-> EmptyMap, deleted |-> {},
     games |-> <<>>, i |-> 0, elos |-> EmptyMap, current_season |-> None,
     history_records |-> <<>>, end |-> ""]

CalcIdle == [run |-> [c \in Callers |-> CalcRunIdle], history_id |-> 0]

EloIdle ==
    [pc |-> "idle", sport |-> "NBA", team_elo |-> EmptyMap, elo_history |-> <<>>,
     games |-> <<>>, i |-> 0, elos |-> EmptyMap, current_season |-> None,
     history_records |-> <<>>]

RollIdle ==
    [pc |-> "idle", sport |-> "NBA", rolling_stats |-> {}, games |-> <<>>, i |-> 0,
     elo_map |-> EmptyMap, team_history |-> [t \in Teams |-> <<>>],
     records_created |-> 0]

Init ==
    /\ games = <<>>
    /\ db = [team_elo |-> [t \in Teams |-> INITIAL_ELO * 100],
             elo_history |-> <<>>,
             rolling_stats |-> {}]
    /\ sched = [phase |-> "fetch", day |-> 1]
    /\ elo = EloIdle
    /\ calc = CalcIdle
    /\ roll = RollIdle
    /\ basis = [elo |-> {}, roll |-> [games |-> {}, elo_map |-> EmptyMap]]
    /\ pe = PeIdle
    /\ dist = DistIdle
    /\ fcall = CallIdle

(* ---------------------------- queries ---------------------------------- *)
(* mutant: the team_ids subquery is not filtered by sport *)
SportTeams_All(sport) == Teams

SportTeams(sport) == {t \in Teams : TeamSport[t] = sport}

CompletedGames(sport) ==
    {g \in Range(games) : g.sport = sport /\ g.status = "Final"}

(* select(Game) ... order_by(Game.game_date.asc()): every order of the rows *)
(* that ascends in game_date; rows with equal game_date come in any order  *)
RECURSIVE AnyOrder(_)
AnyOrder(rows) ==
    IF rows = {} THEN {<<>>}
    ELSE UNION { {<<r>> \o rest : rest \in AnyOrder(rows \ {r})} : r \in rows }

RECURSIVE OrderedBetween(_, _, _)
OrderedBetween(rows, lo, hi) ==
    IF lo = hi
    THEN AnyOrder({r \in rows : r.game_date = lo})
    ELSE LET mid == (lo + hi) \div 2
         IN  {a \o b : a \in OrderedBetween(rows, lo, mid),
                       b \in OrderedBetween(rows, mid + 1, hi)}

OrderedByDate(rows) ==
    IF rows = {} THEN {<<>>}
    ELSE LET d1 == CHOOSE d \in {r.game_date : r \in rows} :
                      \A r \in rows : d <= r.game_date
             d2 == CHOOSE d \in {r.game_date : r \in rows} :
                      \A r \in rows : d >= r.game_date
         IN  OrderedBetween(rows, d1, d2)

(* ------------------------- data ingestion ------------------------------ *)
(* fetch_and_store_games: one more completed game is stored; its date is   *)
(* the latest stored date or the day after, its season the latest stored   *)
(* season or (on a later date) the next one                                *)
StoreGame(kind, later, next_season) ==
    /\ sched.phase = "fetch"
    /\ sched.day <= MaxDays
    /\ Len(games) < MaxGames
    /\ next_season => later
    /\ Len(games) = 0 => later /\ next_season
    /\ LET last == IF Len(games) = 0
                   THEN [game_date |-> 0, season |-> 0]
                   ELSE games[Len(games)]
           row == [id |-> Len(games) + 1,
                   sport |-> TeamSport[kind.home_team_id],
                   season |-> last.season + (IF next_season THEN 1 ELSE 0),
                   game_date |-> last.game_date + (IF later THEN 1 ELSE 0),
                   status |-> "Final",
                   home_team_id |-> kind.home_team_id,
                   away_team_id |-> kind.away_team_id,
                   home_score |-> kind.home_score,
                   away_score |-> kind.away_score]
       IN  games' = Append(games, row)
    /\ UNCHANGED <<db, sched, elo, roll, basis, pe, dist, fcall, calc>>

(* the 06:45 job follows the fetch jobs *)
FetchDone ==
    /\ sched.phase = "fetch"
    /\ sched.day <= MaxDays
    /\ sched' = [sched EXCEPT !.phase = "rolling"]
    /\ UNCHANGED <<games, db, elo, roll, basis, pe, dist, fcall, calc>>

(* ----------------------- calculate_all_elos ---------------------------- *)
(* EloCalculator(db, sport) and the head of calculate_all_elos(sport):     *)
(* get_sport_config, which raises for a sport without configuration, then  *)
(* update(Team).where(Team.sport == sport).values(current_elo=INITIAL_ELO) *)
EloReset(sport) ==
    /\ sched.phase \in {"elos", "overlap"}
    /\ elo.pc = "idle"
    /\ IF HasConfig(sport)
       THEN elo' = [EloIdle EXCEPT
                      !.pc = "clear",
                      !.sport = sport,
                      !.team_elo = [t \in Teams |->
                          IF TeamSport[t] = sport THEN INITIAL_ELO * 100 ELSE db.team_elo[t]],
                      !.elo_history = db.elo_history]
       ELSE elo' = [EloIdle EXCEPT
                      !.pc = "raised",
                      !.sport = sport,
                      !.team_elo = db.team_elo,
                      !.elo_history = db.elo_history]
    /\ UNCHANGED <<games, db, sched, roll, basis, pe, dist, fcall, calc>>

(* mutant: the delete leaves the sport's earlier entries in place *)
DeleteHistory_None(rows, sport) == rows

(* delete(TeamEloHistory).where(TeamEloHistory.team_id.in_(team_ids)) *)
DeleteHistory(rows, sport) ==
    SelectSeq(rows, LAMBDA r : r.team_id \notin SportTeams(sport))

(* mutant: the reset and the delete are committed before the replay *)
EloClear_Commits ==
    /\ elo.pc = "clear"
    /\ \E order \in OrderedByDate(CompletedGames(elo.sport)) :
         elo' = [elo EXCEPT
                   !.pc = IF Len(order) = 0 THEN "returned" ELSE "loop",
                   !.elo_history = DeleteHistory(elo.elo_history, elo.sport),
                   !.games = order,
                   !.i = 1]
    /\ db' = [db EXCEPT !.team_elo = elo.team_elo,
                        !.elo_history = DeleteHistory(elo.elo_history, elo.sport)]
    /\ UNCHANGED <<games, sched, roll, basis, pe, dist, fcall, calc>>

(* the history delete, then the ordered query and `if not games: return` *)
EloClear ==
    /\ elo.pc = "clear"
    /\ \E order \in OrderedByDate(CompletedGames(elo.sport)) :
         elo' = [elo EXCEPT
                   !.pc = IF Len(order) = 0 THEN "returned" ELSE "loop",
                   !.elo_history = DeleteHistory(elo.elo_history, elo.sport),
                   !.games = order,
                   !.i = 1]
    /\ UNCHANGED <<games, db, sched, roll, basis, pe, dist, fcall, calc>>

SeasonChanged(current_season, game) ==
    current_season # None /\ game.season # current_season

(* elos[tid] of the defaultdict *)
EloOf(elos, tid) == IF tid \in DOMAIN elos THEN elos[tid] ELSE INITIAL_ELO * 100

(* mutant: the regression pass runs at every game *)
ApplySeasonReset_Always(cfg, elos, current_season, game) ==
    IF current_season # None
    THEN [t \in DOMAIN elos |-> season_reset(cfg, elos[t])]
    ELSE elos

(* the season-boundary pass over list(elos.keys()) *)
ApplySeasonReset(cfg, elos, current_season, game) ==
    IF SeasonChanged(current_season, game)
    THEN [t \in DOMAIN elos |-> season_reset(cfg, elos[t])]
    ELSE elos

(* mutant: only the home score is tested *)
HasScores_HomeOnly(game) == game.home_score # None

HasScores(game) == game.home_score # None /\ game.away_score # None

(* mutant: the ratings-before are read before the season regression *)
EloStep_ResetAfterRead(cfg, st, game) ==
    LET home_elo_before == EloOf(st.elos, game.home_team_id)
        away_elo_before == EloOf(st.elos, game.away_team_id)
        reset == ApplySeasonReset(cfg, st.elos, st.current_season, game)
        read  == [t \in DOMAIN reset \cup {game.home_team_id, game.away_team_id}
                    |-> EloOf(reset, t)]
        new   == update_elo(cfg, home_elo_before, away_elo_before,
                            game.home_score, game.away_score)
    IN  IF ~HasScores(game)
        THEN [elos |-> read, current_season |-> game.season,
              history_records |-> st.history_records]
        ELSE [elos |-> [read EXCEPT ![game.home_team_id] = new.new_home,
                                    ![game.away_team_id] = new.new_away],
              current_season |-> game.season,
              history_records |-> st.history_records \o
                 << [team_id |-> game.home_team_id, game_id |-> game.id,
                     game_date |-> game.game_date,
                     elo_before |-> home_elo_before, elo_after |-> new.new_home],
                    [team_id |-> game.away_team_id, game_id |-> game.id,
                     game_date |-> game.game_date,
                     elo_before |-> away_elo_before, elo_after |-> new.new_away] >>]

(* one iteration of `for game in games`, on the loop's local state *)
EloStep(cfg, st, game) ==
    LET reset == ApplySeasonReset(cfg, st.elos, st.current_season, game)
        home_elo_before == EloOf(reset, game.home_team_id)
        away_elo_before == EloOf(reset, game.away_team_id)
        read  == [t \in DOMAIN reset \cup {game.home_team_id, game.away_team_id}
                    |-> EloOf(reset, t)]
        new   == update_elo(cfg, home_elo_before, away_elo_before,
                            game.home_score, game.away_score)
    IN  IF ~HasScores(game)
        THEN [elos |-> read, current_season |-> game.season,
              history_records |-> st.history_records]
        ELSE [elos |-> [read EXCEPT ![game.home_team_id] = new.new_home,
                                    ![game.away_team_id] = new.new_away],
              current_season |-> game.season,
              history_records |-> st.history_records \o
                 << [team_id |-> game.home_team_id, game_id |-> game.id,
                     game_date |-> game.game_date,
                     elo_before |-> home_elo_before, elo_after |-> new.new_home],
                    [team_id |-> game.away_team_id, game_id |-> game.id,
                     game_date |-> game.game_date,
                     elo_before |-> away_elo_before, elo_after |-> new.new_away] >>]

EloGame ==
    /\ elo.pc = "loop"
    /\ elo.i <= Len(elo.games)
    /\ LET st == EloStep(get_sport_config(elo.sport),
                         [elos |-> elo.elos, current_season |-> elo.current_season,
                          history_records |-> elo.history_records],
                         elo.games[elo.i])
       IN  elo' = [elo EXCEPT !.i = @ + 1,
                              !.elos = st.elos,
                              !.current_season = st.current_season,
                              !.history_records = st.history_records]
    /\ UNCHANGED <<games, db, sched, roll, basis, pe, dist, fcall, calc>>

(* add_all(history_records), update(Team) per rated team, flush, commit *)
EloWrite ==
    /\ elo.pc = "loop"
    /\ elo.i > Len(elo.games)
    /\ LET team_elo == [t \in Teams |->
                          IF t \in DOMAIN elo.elos THEN elo.elos[t] ELSE elo.team_elo[t]]
           elo_history == elo.elo_history \o elo.history_records
       IN  /\ elo' = [elo EXCEPT !.pc = "returned",
                                 !.team_elo = team_elo,
                                 !.elo_history = elo_history]
           /\ db' = [db EXCEPT !.team_elo = team_elo, !.elo_history = elo_history]
    /\ basis' = [basis EXCEPT !.elo = {g.id : g \in Range(elo.games)}]
    /\ UNCHANGED <<games, sched, roll, pe, dist, fcall, calc>>

(* the cycle after the 07:00 job; jobs that overlap leave the cycle alone *)
NextDay ==
    IF sched.phase = "overlap" THEN sched
    ELSE [phase |-> "fetch", day |-> sched.day + 1]

(* _update_elos_for_sport: `await db.commit()` after the call returned *)
EloCallerCommit ==
    /\ elo.pc = "returned"
    /\ db' = [db EXCEPT !.team_elo = elo.team_elo, !.elo_history = elo.elo_history]
    /\ basis' = [basis EXCEPT !.elo = {g.id : g \in Range(elo.games)}]
    /\ elo' = EloIdle
    /\ sched' = NextDay
    /\ UNCHANGED <<games, roll, pe, dist, fcall, calc>>

(* an exception anywhere inside the call: `except Exception: db.rollback()` *)
EloFail ==
    /\ elo.pc \in {"raised", "clear", "loop", "returned"}
    /\ elo' = EloIdle
    /\ sched' = NextDay
    /\ UNCHANGED <<games, db, roll, basis, pe, dist, fcall, calc>>

(* ------------------------ RollingStatsComputer ------------------------- *)
LastN(seq, n) == SubSeq(seq, IF Len(seq) > n THEN Len(seq) - n + 1 ELSE 1, Len(seq))

(* _ewma with decay 0.95: values newest last, weights and result in thousandths *)
RECURSIVE EwmaAcc(_, _, _, _, _)
EwmaAcc(values, k, weight, total, weight_sum) ==
    IF k = 0
    THEN IF weight_sum > 0 THEN total \div weight_sum ELSE 0
    ELSE EwmaAcc(values, k - 1, (weight * 95) \div 100,
                 total + weight * values[k], weight_sum + weight)

_ewma(values) ==
    IF Len(values) = 0 THEN 0 ELSE EwmaAcc(values, Len(values), 1000, 0, 0)

(* the streak loop over reversed(history) *)
RECURSIVE StreakAcc(_, _, _)
StreakAcc(history, k, streak) ==
    IF k = 0 THEN streak
    ELSE IF history[k].won
         THEN IF streak >= 0 THEN StreakAcc(history, k - 1, streak + 1) ELSE streak
         ELSE IF streak <= 0 THEN StreakAcc(history, k - 1, streak - 1) ELSE streak

_default_stats(sport) == [win_pct_10 |-> 500, streak |-> 0, elo |-> INITIAL_ELO * 100]

(* mutant: the streak is counted inside the last-10 window *)
_compute_stats_from_history_WindowStreak(history, elo_before, sport, is_home) ==
    IF Len(history) = 0
    THEN _default_stats(sport)
    ELSE LET last_10 == LastN(history, 10)
             wins_10 == [k \in 1..Len(last_10) |-> IF last_10[k].won THEN 1000 ELSE 0]
         IN  [win_pct_10 |-> _ewma(wins_10),
              streak |-> StreakAcc(last_10, Len(last_10), 0),
              elo |-> elo_before]

_compute_stats_from_history(history, elo_before, sport, is_home) ==
    IF Len(history) = 0
    THEN _default_stats(sport)
    ELSE LET last_10 == LastN(history, 10)
             wins_10 == [k \in 1..Len(last_10) |-> IF last_10[k].won THEN 1000 ELSE 0]
         IN  [win_pct_10 |-> _ewma(wins_10),
              streak |-> StreakAcc(history, Len(history), 0),
              elo |-> elo_before]

(* elo_map.get((team_id, game_id), 1500.0) *)
EloBefore(elo_map, team_id, game_id) ==
    IF <<team_id, game_id>> \in DOMAIN elo_map
    THEN elo_map[<<team_id, game_id>>]
    ELSE INITIAL_ELO * 100

(* the row compute_all upserts for one team of a game; `src` (ghost) names  *)
(* the games of the history the row was computed from                      *)
SnapshotRow(st, sport, game, team_id, is_home) ==
    LET history    == st.team_history[team_id]
        elo_before == EloBefore(st.elo_map, team_id, game.id)
        stats      == _compute_stats_from_history(history, elo_before, sport, is_home)
    IN  [team_id |-> team_id, game_id |-> game.id, sport |-> sport,
         as_of_date |-> game.game_date, games_played |-> Len(history),
         stats |-> [stats EXCEPT !.elo = elo_before],
         src |-> [k \in 1..Len(history) |-> history[k].game_id]]

(* pg_insert(...).on_conflict_do_update(constraint="uq_rolling_team_game") *)
Upsert(rows, row) ==
    {r \in rows : ~(r.team_id = row.team_id /\ r.game_id = row.game_id)} \cup {row}

HistoryEntry(game, is_home) ==
    LET score_for     == IF is_home THEN game.home_score ELSE game.away_score
        score_against == IF is_home THEN game.away_score ELSE game.home_score
    IN  [game_id |-> game.id, game_date |-> game.game_date, is_home |-> is_home,
         score_for |-> score_for, score_against |-> score_against,
         won |-> score_for > score_against, margin |-> score_for - score_against]

(* mutant: a score-less game writes no snapshot but enters both histories *)
RollStep_AppendsScoreless(st, sport, game) ==
    LET appended ==
            [t \in Teams |->
                IF t = game.home_team_id
                THEN Append(st.team_history[t], HistoryEntry(game, TRUE))
                ELSE IF t = game.away_team_id
                THEN Append(st.team_history[t], HistoryEntry(game, FALSE))
                ELSE st.team_history[t]]
    IN  IF ~HasScores(game)
        THEN [st EXCEPT !.team_history = appended]
        ELSE [st EXCEPT
                !.rolling_stats =
                    Upsert(Upsert(@, SnapshotRow(st, sport, game, game.home_team_id, TRUE)),
                           SnapshotRow(st, sport, game, game.away_team_id, FALSE)),
                !.records_created = @ + 2,
                !.team_history = appended]

(* one iteration of `for i, game in enumerate(games)` up to the periodic   *)
(* commit, on the loop's local state and the session's pending rows        *)
RollStep(st, sport, game) ==
    IF ~HasScores(game)
    THEN st
    ELSE [st EXCEPT
            !.rolling_stats =
                Upsert(Upsert(@, SnapshotRow(st, sport, game, game.home_team_id, TRUE)),
                       SnapshotRow(st, sport, game, game.away_team_id, FALSE)),
            !.records_created = @ + 2,
            !.team_history =
                [t \in Teams |->
                    IF t = game.home_team_id /\ t = game.away_team_id
                    THEN st.team_history[t] \o <<HistoryEntry(game, TRUE), HistoryEntry(game, FALSE)>>
                    ELSE IF t = game.home_team_id
                    THEN Append(st.team_history[t], HistoryEntry(game, TRUE))
                    ELSE IF t = game.away_team_id
                    THEN Append(st.team_history[t], HistoryEntry(game, FALSE))
                    ELSE st.team_history[t]]]

(* the cycle after the 06:45 job; jobs that overlap leave the cycle alone *)
AfterRolling ==
    IF sched.phase = "overlap" THEN sched ELSE [sched EXCEPT !.phase = "elos"]

(* delete(TeamRollingStats).where(sport == sport); flush *)
RollDelete(sport) ==
    /\ sched.phase \in {"rolling", "overlap"}
    /\ roll.pc = "idle"
    /\ roll' = [RollIdle EXCEPT
                  !.pc = "query",
                  !.sport = sport,
                  !.rolling_stats = {r \in db.rolling_stats : r.sport # sport}]
    /\ UNCHANGED <<games, db, sched, elo, basis, pe, dist, fcall, calc>>

(* the rows of team_elo_history of the sport's teams as (team, game) -> elo_before; *)
(* a later row replaces an earlier one with the same key                            *)
LoadEloMap(rows, sport) ==
    LET mine == SelectSeq(rows, LAMBDA r : r.team_id \in SportTeams(sport))
        keys == {<<mine[k].team_id, mine[k].game_id>> : k \in 1..Len(mine)}
    IN  [key \in keys |->
            LET last == CHOOSE k \in 1..Len(mine) :
                          /\ <<mine[k].team_id, mine[k].game_id>> = key
                          /\ \A m \in (k + 1)..Len(mine) :
                                <<mine[m].team_id, mine[m].game_id>> # key
            IN  mine[last].elo_before]

(* the ordered query, `if not games: return 0`, the pre-loads *)
RollQuery ==
    /\ roll.pc = "query"
    /\ \E order \in OrderedByDate(CompletedGames(roll.sport)) :
         roll' = [roll EXCEPT
                    !.pc = IF Len(order) = 0 THEN "returned" ELSE "loop",
                    !.games = order,
                    !.i = 1,
                    !.elo_map = IF Len(order) = 0 THEN EmptyMap
                                ELSE LoadEloMap(db.elo_history, roll.sport)]
    /\ UNCHANGED <<games, db, sched, elo, basis, pe, dist, fcall, calc>>

(* a loop iteration; enumerate's i is roll.i - 1, so (i + 1) % 500 is roll.i % 500 *)
RollGame ==
    /\ roll.pc = "loop"
    /\ roll.i <= Len(roll.games)
    /\ LET game == roll.games[roll.i]
           st   == RollStep(roll, roll.sport, game)
       IN  /\ roll' = [st EXCEPT !.i = @ + 1]
           /\ IF HasScores(game) /\ roll.i % COMMIT_EVERY = 0
              THEN db' = [db EXCEPT !.rolling_stats = st.rolling_stats]
              ELSE db' = db
    /\ UNCHANGED <<games, sched, elo, basis, pe, dist, fcall, calc>>

(* the final commit and `return records_created` *)
RollFinish ==
    /\ roll.pc = "loop"
    /\ roll.i > Len(roll.games)
    /\ db' = [db EXCEPT !.rolling_stats = roll.rolling_stats]
    /\ roll' = [roll EXCEPT !.pc = "returned"]
    /\ basis' = [basis EXCEPT !.roll = [games |-> {g.id : g \in Range(roll.games)},
                                        elo_map |-> roll.elo_map]]
    /\ UNCHANGED <<games, sched, elo, pe, dist, fcall, calc>>

(* _compute_rolling_stats_for_sport after the call returned: the session is *)
(* closed without a commit of its own                                       *)
RollReturn ==
    /\ roll.pc = "returned"
    /\ roll' = RollIdle
    /\ sched' = AfterRolling
    /\ UNCHANGED <<games, db, elo, basis, pe, dist, fcall, calc>>

(* an exception anywhere inside the call: `except Exception: db.rollback()` *)
RollFail ==
    /\ roll.pc \in {"query", "loop"}
    /\ roll' = RollIdle
    /\ sched' = AfterRolling
    /\ UNCHANGED <<games, db, elo, basis, pe, dist, fcall, calc>>

Next ==
    \/ \E kind \in GameKinds, later \in BOOLEAN, next_season \in BOOLEAN :
          StoreGame(kind, later, next_season)
    \/ FetchDone
    \/ \E sport \in Sports : RollDelete(sport)
    \/ RollQuery
    \/ RollGame
    \/ RollFinish
    \/ RollReturn
    \/ RollFail
    \/ \E sport \in Sports \cup UnknownSports : EloReset(sport)
    \/ EloClear
    \/ EloGame
    \/ EloWrite
    \/ EloCallerCommit
    \/ EloFail

Spec == Init /\ [][Next]_vars

(* -------------------- a season-sized stored game set ------------------- *)
(* the games table holds COMMIT_EVERY - 1 .. COMMIT_EVERY + 1 completed    *)
(* games (one per date, teams and winners alternating) and the 06:45 job    *)
(* is due                                                                  *)
SeasonGame(i) ==
    [id |-> i, sport |-> "NBA", season |-> 1, game_date |-> i, status |-> "Final",
     home_team_id |-> IF i % 2 = 1 THEN "A" ELSE "C",
     away_team_id |-> IF i % 2 = 1 THEN "B" ELSE "A",
     home_score |-> IF i % 4 \in {1, 0} THEN 3 ELSE 1,
     away_score |-> 2]

InitBatch ==
    /\ \E n \in (COMMIT_EVERY - 1)..(COMMIT_EVERY + 1) :
          games = [i \in 1..n |-> SeasonGame(i)]
    /\ db = [team_elo |-> [t \in Teams |-> INITIAL_ELO * 100],
             elo_history |-> <<>>,
             rolling_stats |-> {}]
    /\ sched = [phase |-> "rolling", day |-> 1]
    /\ elo = EloIdle
    /\ calc = CalcIdle
    /\ roll = RollIdle
    /\ basis = [elo |-> {}, roll |-> [games |-> {}, elo_map |-> EmptyMap]]
    /\ pe = PeIdle
    /\ dist = DistIdle
    /\ fcall = CallIdle

NextBatch ==
    \/ \E sport \in Sports : RollDelete(sport)
    \/ RollQuery
    \/ RollGame
    \/ RollFinish
    \/ RollReturn
    \/ RollFail

SpecBatch == InitBatch /\ [][NextBatch]_vars

(* ----------------- two sports, the two jobs overlapping ---------------- *)
(* stored games of two sports, one game of each per date; the second game  *)
(* of a sport is in the same season or the next                            *)
SportsGame(i, season) ==
    [id |-> i, sport |-> IF i % 2 = 1 THEN "NBA" ELSE "NHL",
     season |-> season, game_date |-> (i + 1) \div 2, status |-> "Final",
     home_team_id |-> CASE i = 1 -> "A" [] i = 2 -> "D" [] i = 3 -> "C" [] i = 4 -> "E",
     away_team_id |-> CASE i = 1 -> "B" [] i = 2 -> "E" [] i = 3 -> "A" [] i = 4 -> "D",
     home_score |-> CASE i = 1 -> 3 [] i = 2 -> 2 [] i = 3 -> 1 [] i = 4 -> 1,
     away_score |-> CASE i = 1 -> 1 [] i = 2 -> 1 [] i = 3 -> 2 [] i = 4 -> 3]

(* the 07:00 rating job (or POST /admin/calculate-elos) starts while the   *)
(* 06:45 rolling job is still looping over the sports                      *)
InitSports ==
    /\ \E s3 \in 1..2, s4 \in 1..2 :
          games = <<SportsGame(1, 1), SportsGame(2, 1),
                    SportsGame(3, s3), SportsGame(4, s4)>>
    /\ db = [team_elo |-> [t \in Teams |-> INITIAL_ELO * 100],
             elo_history |-> <<>>,
             rolling_stats |-> {}]
    /\ sched = [phase |-> "overlap", day |-> 1]
    /\ elo = EloIdle
    /\ calc = CalcIdle
    /\ roll = RollIdle
    /\ basis = [elo |-> {}, roll |-> [games |-> {}, elo_map |-> EmptyMap]]
    /\ pe = PeIdle
    /\ dist = DistIdle
    /\ fcall = CallIdle

(* the rolling job reaches a sport the rating job is not working on *)
OverlapRollDelete(sport) ==
    /\ elo.pc = "idle" \/ elo.sport # sport
    /\ RollDelete(sport)

(* the rating job reaches a sport the rolling job is not working on *)
OverlapEloReset(sport) ==
    /\ roll.pc = "idle" \/ roll.sport # sport
    /\ EloReset(sport)

NextSports ==
    \/ \E sport \in AllSports : OverlapRollDelete(sport)
    \/ RollQuery
    \/ RollGame
    \/ RollFinish
    \/ RollReturn
    \/ RollFail
    \/ \E sport \in AllSports : OverlapEloReset(sport)
    \/ EloClear
    \/ EloGame
    \/ EloWrite
    \/ EloCallerCommit
    \/ EloFail

SpecSports == InitSports /\ [][NextSports]_vars

(* --------------------------- _distribute_score ------------------------- *)
(* Period shares are whole twelfths (they sum to SHARE_UNIT); a total is in *)
(* hundredths of a point, a period value in tenths.  With these units       *)
(* total * p * 10 is (total * share) / (10 * SHARE_UNIT) exactly, never     *)
(* within 1e-6 of an integer it does not equal, so round(v * 10, 6) is the  *)
(* value itself.                                                            *)
RECURSIVE SumSeq(_, _)
SumSeq(seq, k) == IF k = 0 THEN 0 ELSE seq[k] + SumSeq(seq, k - 1)

(* round(round(total, 1) * 10): a total that ends in 5 hundredths rounds to *)
(* either neighbour, as its binary representation falls (tie_up)            *)
TargetTenths(total, tie_up) ==
    IF total % 10 > 5 \/ (total % 10 = 5 /\ tie_up)
    THEN total \div 10 + 1
    ELSE total \div 10

(* mutant: among equal remainders the later period comes first *)
_distribute_score_LaterFirst(total, pcts, tie_up) ==
    LET n == Len(pcts)
        floored_tenths == [i \in 1..n |-> (total * pcts[i]) \div (10 * SHARE_UNIT)]
        remainders     == [i \in 1..n |-> (total * pcts[i]) % (10 * SHARE_UNIT)]
        shortfall      == TargetTenths(total, tie_up) - SumSeq(floored_tenths, n)
        rank(i) == Cardinality({j \in 1..n :
                       \/ remainders[j] > remainders[i]
                       \/ (remainders[j] = remainders[i] /\ j > i)})
    IN  [raised |-> shortfall > n,
         periods |-> [i \in 1..n |->
             floored_tenths[i] + (IF rank(i) < shortfall THEN 1 ELSE 0)]]

(* mutant: the shortfall is not handed out *)
_distribute_score_Floors(total, pcts, tie_up) ==
    [raised |-> FALSE,
     periods |-> [i \in 1..Len(pcts) |-> (total * pcts[i]) \div (10 * SHARE_UNIT)]]

(* largest-remainder method; sorted(..., reverse=True) is stable, so among  *)
(* equal remainders the earlier index comes first; indices_by_remainder[i]  *)
(* with i >= len(pcts) raises IndexError                                    *)
_distribute_score(total, pcts, tie_up) ==
    LET n == Len(pcts)
        floored_tenths == [i \in 1..n |-> (total * pcts[i]) \div (10 * SHARE_UNIT)]
        remainders     == [i \in 1..n |-> (total * pcts[i]) % (10 * SHARE_UNIT)]
        shortfall      == TargetTenths(total, tie_up) - SumSeq(floored_tenths, n)
        rank(i) == Cardinality({j \in 1..n :
                       \/ remainders[j] > remainders[i]
                       \/ (remainders[j] = remainders[i] /\ j < i)})
    IN  IF shortfall > n
        THEN [raised |-> TRUE, periods |-> <<>>]
        ELSE [raised |-> FALSE,
              periods |-> [i \in 1..n |->
                  floored_tenths[i] + (IF rank(i) < shortfall THEN 1 ELSE 0)]]

(* lists of non-negative shares that sum to 1 *)
ShareLists ==
    { <<12>>, <<6, 6>>, <<4, 4, 4>>, <<3, 3, 3, 3>>, <<5, 7>>, <<0, 12>>,
      <<1, 11>>, <<1, 1, 10>>, <<2, 3, 3, 4>>, <<11, 1, 0>> }

InitDistribute ==
    /\ games = <<>>
    /\ db = [team_elo |-> [t \in Teams |-> INITIAL_ELO * 100],
             elo_history |-> <<>>,
             rolling_stats |-> {}]
    /\ sched = [phase |-> "fetch", day |-> 1]
    /\ elo = EloIdle
    /\ calc = CalcIdle
    /\ roll = RollIdle
    /\ basis = [elo |-> {}, roll |-> [games |-> {}, elo_map |-> EmptyMap]]
    /\ pe = PeIdle
    /\ fcall = CallIdle
    /\ \E total \in 0..MaxTotal, pcts \in ShareLists, tie_up \in BOOLEAN :
          dist = [pc |-> "called", total |-> total, pcts |-> pcts,
                  tie_up |-> tie_up, out |-> <<>>]

Distribute ==
    /\ dist.pc = "called"
    /\ dist' = [dist EXCEPT
                  !.pc = "returned",
                  !.out = _distribute_score(dist.total, dist.pcts, dist.tie_up)]
    /\ UNCHANGED <<games, db, sched, elo, roll, basis, pe, fcall, calc>>

NextDistribute == Distribute

SpecDistribute == InitDistribute /\ [][NextDistribute]_vars

(* the replay of a game list from the loop's initial local state *)
RECURSIVE EloReplayOf(_, _, _)
EloReplayOf(cfg, seq, k) ==
    IF k = 0
    THEN [elos |-> EmptyMap, current_season |-> None, history_records |-> <<>>]
    ELSE EloStep(cfg, EloReplayOf(cfg, seq, k - 1), seq[k])

(* the rolling replay of a game list from the loop's initial local state *)
RECURSIVE RollReplayOf(_, _, _, _)
RollReplayOf(st0, sport, seq, k) ==
    IF k = 0 THEN st0
    ELSE RollStep(RollReplayOf(st0, sport, seq, k - 1), sport, seq[k])

(* --------------------------- FeatureEngineer --------------------------- *)
(* An optional value is <<>> (None) or <<v>>.  Feature values keep the     *)
(* units of their sources: ratings in hundredths, win shares and points in *)
(* thousandths, rest days in days.                                         *)
BASE_FEATURE_NAMES ==
    << "elo_diff", "home_win_pct_10", "away_win_pct_10", "home_ppg_20",
       "away_ppg_20", "home_papg_20", "away_papg_20", "rest_days_home",
       "rest_days_away", "h2h_home_wins_last5", "home_streak", "away_streak",
       "home_margin_avg_10", "away_margin_avg_10" >>

SPORT_FEATURE_REGISTRY ==
    [s \in AllSports |->
        IF s = "NBA"
        THEN << "home_efg_pct_10", "away_efg_pct_10", "home_tov_pct_10",
                "away_tov_pct_10", "home_ftr_10", "away_ftr_10",
                "home_oreb_pct_10", "away_oreb_pct_10", "home_net_rating_10",
                "away_net_rating_10", "home_pace_10", "away_pace_10" >>
        ELSE << "home_save_pct_10", "away_save_pct_10", "home_shot_diff_10",
                "away_shot_diff_10", "home_pp_pct_10", "away_pp_pct_10",
                "home_pk_pct_10", "away_pk_pct_10", "home_goals_per_game_10",
                "away_goals_per_game_10" >>]

LEGACY_FEATURE_NAMES ==
    << "elo_diff", "home_win_pct_last10", "away_win_pct_last10", "home_ppg",
       "away_ppg", "home_papg", "away_papg", "rest_days_home", "rest_days_away",
       "h2h_home_wins_last5" >>

(* FeatureEngineer(db) without a sport *)
NoSport == ""

(* FeatureEngineer.__init__: self.FEATURE_NAMES *)
FEATURE_NAMES(sport) ==
    IF sport # NoSport
    THEN BASE_FEATURE_NAMES \o
            (IF sport \in DOMAIN SPORT_FEATURE_REGISTRY
             THEN SPORT_FEATURE_REGISTRY[sport] ELSE <<>>)
    ELSE LEGACY_FEATURE_NAMES

(* the possible results of _get_rolling_stats: the row of (team, game) if  *)
(* there is one, else a row of the team with the latest as_of_date before  *)
(* before_date (any of them when several share it), else None              *)
_get_rolling_stats(team_id, before_date, game_id) ==
    LET direct  == {r \in db.rolling_stats :
                       r.team_id = team_id /\ r.game_id = game_id}
        earlier == {r \in db.rolling_stats :
                       r.team_id = team_id /\ r.as_of_date < before_date}
    IN  IF direct # {} THEN {<<r>> : r \in direct}
        ELSE IF earlier = {} THEN {<<>>}
        ELSE {<<r>> : r \in {x \in earlier :
                                \A y \in earlier : y.as_of_date <= x.as_of_date}}

_calc_rest_days_from_dates(game_date, last_game_date) ==
    IF last_game_date = None THEN DEFAULT_REST_DAYS
    ELSE Min(game_date - last_game_date, MAX_REST_DAYS)

(* order_by(Game.game_date.desc()).limit(n) *)
MostRecent(rows, n) ==
    IF Cardinality(rows) <= n THEN rows
    ELSE CHOOSE S \in SUBSET rows :
            /\ Cardinality(S) = n
            /\ \A a \in S : \A b \in rows \ S : a.game_date >= b.game_date

_get_team_last_n_games(team_id, n, before_date) ==
    MostRecent({g \in Range(games) :
                   /\ team_id \in {g.home_team_id, g.away_team_id}
                   /\ g.status = "Final"
                   /\ g.game_date < before_date}, n)

_get_h2h_games(team_a_id, team_b_id, n, before_date) ==
    MostRecent({g \in Range(games) :
                   /\ \/ (g.home_team_id = team_a_id /\ g.away_team_id = team_b_id)
                      \/ (g.home_team_id = team_b_id /\ g.away_team_id = team_a_id)
                   /\ g.status = "Final"
                   /\ g.game_date < before_date}, n)

(* `x or 0` *)
Or0(x) == IF x = None THEN 0 ELSE x

WonBy(team_id, g) ==
    \/ (g.home_team_id = team_id /\ Or0(g.home_score) > Or0(g.away_score))
    \/ (g.away_team_id = team_id /\ Or0(g.away_score) > Or0(g.home_score))

_calc_win_pct(team_id, gs) ==
    IF gs = {} THEN 500
    ELSE (1000 * Cardinality({g \in gs : WonBy(team_id, g)})) \div Cardinality(gs)

RECURSIVE PointsOf(_, _, _)
PointsOf(team_id, gs, for) ==
    IF gs = {} THEN 0
    ELSE LET g == CHOOSE x \in gs : TRUE
         IN  (IF (g.home_team_id = team_id) = for
              THEN Or0(g.home_score) ELSE Or0(g.away_score))
             + PointsOf(team_id, gs \ {g}, for)

_calc_ppg(team_id, gs, default_ppg) ==
    IF gs = {} THEN default_ppg * 1000
    ELSE (1000 * PointsOf(team_id, gs, TRUE)) \div Cardinality(gs)

_calc_papg(team_id, gs, default_ppg) ==
    IF gs = {} THEN default_ppg * 1000
    ELSE (1000 * PointsOf(team_id, gs, FALSE)) \div Cardinality(gs)

(* games[0] of the date-descending list is a game of the latest date *)
_calc_rest_days(game_date, gs) ==
    IF gs = {} THEN DEFAULT_REST_DAYS
    ELSE LET most_recent == CHOOSE g \in gs : \A x \in gs : x.game_date <= g.game_date
         IN  Min(game_date - most_recent.game_date, MAX_REST_DAYS)

h2h_home_wins_last5(game) ==
    LET h2h_games == _get_h2h_games(game.home_team_id, game.away_team_id, 5,
                                    game.game_date)
    IN  IF h2h_games = {} THEN 500
        ELSE (1000 * Cardinality({g \in h2h_games : WonBy(game.home_team_id, g)}))
                \div Cardinality(h2h_games)

(* mutant: the games_played test is dropped *)
_compute_features_from_rolling_stats_AnyRow(sport, game, home_stats, away_stats) ==
    IF home_stats = <<>> \/ away_stats = <<>>
    THEN <<>>
    ELSE << [path |-> "snapshot",
             features |-> [name \in Range(FEATURE_NAMES(sport)) |->
                 IF name = "elo_diff"
                 THEN home_stats[1].stats.elo - away_stats[1].stats.elo ELSE 0]] >>

(* the feature dict built from the two resolved snapshots; a metric the    *)
(* stats map does not hold reads as its .get default 0.0                   *)
_compute_features_from_rolling_stats(sport, game, home_stats, away_stats) ==
    IF home_stats = <<>> \/ away_stats = <<>>
    THEN <<>>
    ELSE IF \/ home_stats[1].games_played < MIN_GAMES_PLAYED
            \/ away_stats[1].games_played < MIN_GAMES_PLAYED
    THEN <<>>
    ELSE LET hs  == home_stats[1].stats
             as_ == away_stats[1].stats
         IN  << [path |-> "snapshot",
                 features |-> [name \in Range(FEATURE_NAMES(sport)) |->
                     CASE name = "elo_diff" -> hs.elo - as_.elo
                       [] name = "home_win_pct_10" -> hs.win_pct_10
                       [] name = "away_win_pct_10" -> as_.win_pct_10
                       [] name = "rest_days_home" ->
                            _calc_rest_days_from_dates(game.game_date,
                                                       home_stats[1].as_of_date)
                       [] name = "rest_days_away" ->
                            _calc_rest_days_from_dates(game.game_date,
                                                       away_stats[1].as_of_date)
                       [] name = "h2h_home_wins_last5" -> h2h_home_wins_last5(game)
                       [] name = "home_streak" -> hs.streak
                       [] name = "away_streak" -> as_.streak
                       [] OTHER -> 0]] >>

(* the per-game query path; with a sport the dict has the sport's names,   *)
(* streaks, margins and sport features zeroed                              *)
_compute_features_legacy(sport, game) ==
    LET home_last_10 == _get_team_last_n_games(game.home_team_id, 10, game.game_date)
        away_last_10 == _get_team_last_n_games(game.away_team_id, 10, game.game_date)
        home_last_20 == _get_team_last_n_games(game.home_team_id, 20, game.game_date)
        away_last_20 == _get_team_last_n_games(game.away_team_id, 20, game.game_date)
        default_ppg  == get_sport_config(game.sport).default_ppg
    IN  IF \/ Cardinality(home_last_10) < MIN_GAMES_PLAYED
           \/ Cardinality(away_last_10) < MIN_GAMES_PLAYED
        THEN <<>>
        ELSE << [path |-> "legacy",
                 features |-> [name \in Range(FEATURE_NAMES(sport)) |->
                     CASE name = "elo_diff" ->
                            db.team_elo[game.home_team_id] - db.team_elo[game.away_team_id]
                       [] name \in {"home_win_pct_10", "home_win_pct_last10"} ->
                            _calc_win_pct(game.home_team_id, home_last_10)
                       [] name \in {"away_win_pct_10", "away_win_pct_last10"} ->
                            _calc_win_pct(game.away_team_id, away_last_10)
                       [] name \in {"home_ppg_20", "home_ppg"} ->
                            _calc_ppg(game.home_team_id, home_last_20, default_ppg)
                       [] name \in {"away_ppg_20", "away_ppg"} ->
                            _calc_ppg(game.away_team_id, away_last_20, default_ppg)
                       [] name \in {"home_papg_20", "home_papg"} ->
                            _calc_papg(game.home_team_id, home_last_20, default_ppg)
                       [] name \in {"away_papg_20", "away_papg"} ->
                            _calc_papg(game.away_team_id, away_last_20, default_ppg)
                       [] name = "rest_days_home" ->
                            _calc_rest_days(game.game_date, home_last_10)
                       [] name = "rest_days_away" ->
                            _calc_rest_days(game.game_date, away_last_10)
                       [] name = "h2h_home_wins_last5" -> h2h_home_wins_last5(game)
                       [] OTHER -> 0]] >>

(* compute_features, given the rows _get_rolling_stats resolved *)
compute_features(sport, game, home_stats, away_stats) ==
    LET result == IF sport # NoSport
                  THEN _compute_features_from_rolling_stats(sport, game,
                                                            home_stats, away_stats)
                  ELSE <<>>
    IN  IF result # <<>> THEN result ELSE _compute_features_legacy(sport, game)

(* to_array: the values in the order of self.FEATURE_NAMES *)
to_array(sport, features) ==
    [k \in 1..Len(FEATURE_NAMES(sport)) |-> features[FEATURE_NAMES(sport)[k]]]

(* the record of one compute_features call *)
FeatCall(sport, game, home_stats, away_stats) ==
    [game_id |-> game.id, sport |-> sport,
     home_stats |-> IF sport # NoSport THEN home_stats ELSE <<>>,
     away_stats |-> IF sport # NoSport THEN away_stats ELSE <<>>,
     result |-> compute_features(sport, game, home_stats, away_stats)]

(* --------------------------- PredictionEngine -------------------------- *)
(* A model artifact: the feature names it declares (<<>> for None, the     *)
(* bare-pipeline format) and the number of columns its estimators were     *)
(* fitted on.                                                              *)
LegacyPipeline ==
    [feature_names |-> <<>>, n_features |-> Len(LEGACY_FEATURE_NAMES)]

(* written by ModelTrainer.train(sport): fe.FEATURE_NAMES of the sport *)
TrainedArtifact(sport) ==
    [feature_names |-> FEATURE_NAMES(sport), n_features |-> Len(FEATURE_NAMES(sport))]

(* an artifact fitted on the base features alone *)
BaseArtifact ==
    [feature_names |-> BASE_FEATURE_NAMES, n_features |-> Len(BASE_FEATURE_NAMES)]

Max0(x) == IF x < 0 THEN 0 ELSE x

(* Python round(n / d) for n >= 0: to the nearest integer, a half to even *)
PyRound(n, d) ==
    LET q == n \div d
        r == n % d
    IN  IF 2 * r > d \/ (2 * r = d /\ q % 2 = 1) THEN q + 1 ELSE q

(* win probabilities the classifier returns, thousandths *)
Probs == {0, 450, 500, 1000}

(* math.log(p / (1 - p)) in thousandths, for the clamped probabilities *)
Logit(p) ==
    CASE p = 10 -> 0 - 4595 [] p = 450 -> 0 - 201 [] p = 500 -> 0
      [] p = 990 -> 4595

(* (raw_home, raw_away) the two regressors return, thousandths of a point *)
RawScores ==
    { <<100300, 104000>>, <<0 - 5000, 2400>>, <<1000, 2000>> }

(* mutant: the favourite is moved only when rounding gave it fewer points *)
final_scores_NoTieBump(home_win_prob, predicted_home_score, predicted_away_score) ==
    IF home_win_prob >= 500
    THEN [home |-> IF predicted_home_score < predicted_away_score
                   THEN predicted_away_score + 1 ELSE predicted_home_score,
          away |-> predicted_away_score]
    ELSE [home |-> predicted_home_score,
          away |-> IF predicted_away_score < predicted_home_score
                   THEN predicted_home_score + 1 ELSE predicted_away_score]

(* the adjustment after rounding: the predicted winner gets the higher score *)
final_scores(home_win_prob, predicted_home_score, predicted_away_score) ==
    IF home_win_prob >= 500
    THEN [home |-> IF predicted_home_score <= predicted_away_score
                   THEN predicted_away_score + 1 ELSE predicted_home_score,
          away |-> predicted_away_score]
    ELSE [home |-> predicted_home_score,
          away |-> IF predicted_away_score <= predicted_home_score
                   THEN predicted_home_score + 1 ELSE predicted_away_score]

(* the period scores of a team in a game; a row without the column, NULL   *)
(* and the empty list all fail `if period_scores`                          *)
PeriodScoresOf(g, team_id) ==
    IF g.home_team_id = team_id
    THEN IF "home_period_scores" \in DOMAIN g THEN g.home_period_scores ELSE <<>>
    ELSE IF "away_period_scores" \in DOMAIN g THEN g.away_period_scores ELSE <<>>

(* the team's Final games, order_by(game_date.desc()).limit(20); games of  *)
(* one date at the cut stay together                                       *)
PeriodGames(team_id) ==
    LET rows == {g \in Range(games) : /\ team_id \in {g.home_team_id, g.away_team_id}
                                      /\ g.status = "Final"}
    IN  {g \in rows : Cardinality({h \in rows : h.game_date > g.game_date}) < 20}

(* the sum over the rows of the team's score in period i *)
RECURSIVE PeriodTotal(_, _, _)
PeriodTotal(rows, team_id, i) ==
    IF rows = {} THEN 0
    ELSE LET g == CHOOSE x \in rows : TRUE
         IN  PeriodScoresOf(g, team_id)[i] + PeriodTotal(rows \ {g}, team_id, i)

(* mutant: overtime periods are counted in the regulation points *)
_get_period_percentages_WithOvertime(team_id, num_periods) ==
    LET valid == {g \in PeriodGames(team_id) :
                     Len(PeriodScoresOf(g, team_id)) >= num_periods}
        period_totals == [i \in 1..num_periods |-> PeriodTotal(valid, team_id, i)]
        total == SumSeq(period_totals, num_periods)
                 + PeriodTotal({g \in valid : Len(PeriodScoresOf(g, team_id)) > num_periods},
                               team_id, num_periods + 1)
    IN  IF valid # {} /\ total > 0
        THEN [num |-> period_totals, den |-> total]
        ELSE [num |-> [i \in 1..num_periods |-> 1], den |-> num_periods]

(* the shares as exact fractions num[i] / den: the period totals over the  *)
(* regulation points of the valid games, or 1 / num_periods each           *)
_get_period_percentages(team_id, num_periods) ==
    LET valid == {g \in PeriodGames(team_id) :
                     Len(PeriodScoresOf(g, team_id)) >= num_periods}
        period_totals == [i \in 1..num_periods |-> PeriodTotal(valid, team_id, i)]
        total_regulation_points == SumSeq(period_totals, num_periods)
    IN  IF valid # {} /\ total_regulation_points > 0
        THEN [num |-> period_totals, den |-> total_regulation_points]
        ELSE [num |-> [i \in 1..num_periods |-> 1], den |-> num_periods]

(* a share list in twelfths, the unit _distribute_score is modelled in *)
InTwelfths(shares) ==
    [i \in 1..Len(shares.num) |-> (shares.num[i] * SHARE_UNIT) \div shares.den]

_compute_period_predictions(game, predicted_home_score, predicted_away_score) ==
    LET num_periods == get_sport_config(game.sport).num_periods
        home_pcts == InTwelfths(_get_period_percentages(game.home_team_id, num_periods))
        away_pcts == InTwelfths(_get_period_percentages(game.away_team_id, num_periods))
    IN  [home |-> _distribute_score(predicted_home_score * 100, home_pcts, FALSE).periods,
         away |-> _distribute_score(predicted_away_score * 100, away_pcts, FALSE).periods]

(* predicted_home_score and predicted_away_score as round() leaves them:   *)
(* the halves of total plus and minus the calibrated spread, floored at 0  *)
rounded_scores(game, home_win_prob, raw_home, raw_away) ==
    LET predicted_total == Max0(raw_home) + Max0(raw_away)
        config == get_sport_config(game.sport)
        clamped_prob == IF home_win_prob < 10 THEN 10
                        ELSE IF home_win_prob > 990 THEN 990 ELSE home_win_prob
        predicted_spread == (config.spread_calibration * Logit(clamped_prob)) \div 10
    IN  [home |-> PyRound(Max0(predicted_total + predicted_spread), 2000),
         away |-> PyRound(Max0(predicted_total - predicted_spread), 2000)]

(* predict_game from the estimators' outputs on: the returned dict; scores *)
(* are whole points, spread and total in points                            *)
prediction_data(game, home_win_prob, raw_home, raw_away) ==
    LET rounded == rounded_scores(game, home_win_prob, raw_home, raw_away)
        final == final_scores(home_win_prob, rounded.home, rounded.away)
    IN  [game_id |-> game.id,
         sport |-> game.sport,
         predicted_winner_id |-> IF home_win_prob >= 500
                                 THEN game.home_team_id ELSE game.away_team_id,
         win_probability |-> home_win_prob,
         predicted_home_score |-> final.home,
         predicted_away_score |-> final.away,
         predicted_spread |-> final.home - final.away,
         predicted_total |-> final.home + final.away,
         quarter_predictions |->
             _compute_period_predictions(game, final.home, final.away)]

(* mutant: a game without features is predicted from an empty vector *)
predict_game_NoSkip(models_dir, game, call, home_win_prob, raw, fault) ==
    IF models_dir = <<>>
    THEN [raised |-> TRUE, feat |-> <<>>, vec |-> <<>>, rounded |-> <<>>, out |-> <<>>]
    ELSE [raised |-> FALSE, feat |-> <<call>>, vec |-> <<>>,
          rounded |-> <<rounded_scores(game, home_win_prob, raw[1], raw[2])>>,
          out |-> <<prediction_data(game, home_win_prob, raw[1], raw[2])>>]

(* the sport the engineer of predict_game is built with: the game's when   *)
(* the artifact declares more than 14 names, else none                     *)
EngineerSport(models_dir, game) ==
    IF models_dir # <<>> /\ Len(models_dir[1].feature_names) > SPORT_AWARE_MIN
    THEN game.sport ELSE NoSport

(* predict_game, `call` being its compute_features call: _load_models      *)
(* raises without an artifact; no features, no prediction; an estimator    *)
(* raises on a vector of another width; fault is any other exception       *)
(* raised after the features were computed                                 *)
predict_game(models_dir, game, call, home_win_prob, raw, fault) ==
    IF models_dir = <<>>
    THEN [raised |-> TRUE, feat |-> <<>>, vec |-> <<>>, rounded |-> <<>>, out |-> <<>>]
    ELSE LET models == models_dir[1]
         IN  IF call.result = <<>>
             THEN [raised |-> FALSE, feat |-> <<call>>, vec |-> <<>>,
                   rounded |-> <<>>, out |-> <<>>]
             ELSE LET feature_array == to_array(call.sport, call.result[1].features)
                  IN  IF Len(feature_array) # models.n_features \/ fault
                      THEN [raised |-> TRUE, feat |-> <<call>>,
                            vec |-> <<feature_array>>, rounded |-> <<>>, out |-> <<>>]
                      ELSE [raised |-> FALSE, feat |-> <<call>>,
                            vec |-> <<feature_array>>,
                            rounded |-> <<rounded_scores(game, home_win_prob,
                                                         raw[1], raw[2])>>,
                            out |-> <<prediction_data(game, home_win_prob,
                                                      raw[1], raw[2])>>]

(* ---------------- one day's prediction job on stored data -------------- *)
Gaps == {1, 9}

(* games 1..PriorGames are Final, A and B alternating as home team, one a  *)
(* day, the last after gap_last days and with or without scores; then two  *)
(* scheduled games gap_next days later: A or B at home against the other,  *)
(* and other_home against A                                                *)
PredGame(i, gap_last, scored_last, gap_next, other_home) ==
    LET last_date == PriorGames - 1 + gap_last
    IN  [id |-> i, sport |-> "NBA", season |-> 1,
         game_date |-> IF i < PriorGames THEN i
                       ELSE IF i = PriorGames THEN last_date
                       ELSE last_date + gap_next,
         status |-> IF i <= PriorGames THEN "Final" ELSE "scheduled",
         home_team_id |-> IF i = PriorGames + 2 THEN other_home
                          ELSE IF i % 2 = 1 THEN "A" ELSE "B",
         away_team_id |-> IF i = PriorGames + 2 THEN "A"
                          ELSE IF i % 2 = 1 THEN "B" ELSE "A",
         home_score |-> IF i > PriorGames \/ (i = PriorGames /\ ~scored_last) THEN None
                        ELSE IF i % 4 \in {1, 0} THEN 3 ELSE 1,
         away_score |-> IF i > PriorGames THEN None ELSE 2]

(* the committed tables after the rating job and then the rolling job ran  *)
(* to their ends on the stored games `seq`                                 *)
JobsRanOn(seq) ==
    LET er   == EloReplayOf(get_sport_config("NBA"), seq, Len(seq))
        st0  == [RollIdle EXCEPT !.sport = "NBA",
                                 !.elo_map = LoadEloMap(er.history_records, "NBA")]
        rr   == RollReplayOf(st0, "NBA", seq, Len(seq))
    IN  [team_elo |-> [t \in Teams |-> EloOf(er.elos, t)],
         elo_history |-> er.history_records,
         rolling_stats |-> rr.rolling_stats]

(* the 08:00 job is due; the rating and rolling jobs last ran when the     *)
(* first m games were stored; the models directory holds no artifact or    *)
(* one of three kinds                                                      *)
InitPredict ==
    /\ \E gap_last \in Gaps, scored_last \in BOOLEAN, gap_next \in Gaps,
          other_home \in {"B", "C"} :
          games = [i \in 1..(PriorGames + 2) |->
                      PredGame(i, gap_last, scored_last, gap_next, other_home)]
    /\ \E m \in {0, PriorGames - 1, PriorGames} :
          /\ db = JobsRanOn(SubSeq(games, 1, m))
          /\ basis = [elo |-> 1..m, roll |-> [games |-> 1..m, elo_map |-> EmptyMap]]
    /\ sched = [phase |-> "predict", day |-> 1]
    /\ elo = EloIdle
    /\ calc = CalcIdle
    /\ roll = RollIdle
    /\ \E models_dir \in {<<>>, <<LegacyPipeline>>, <<TrainedArtifact("NBA")>>,
                         <<BaseArtifact>>} :
          pe = [PeIdle EXCEPT !.models_dir["NBA"] = models_dir]
    /\ dist = DistIdle
    /\ fcall = CallIdle

(* ModelTrainer.train, run before the day's prediction job:                *)
(* compute_features of a completed game by the sport-aware engineer        *)
TrainFeatures(game) ==
    /\ sched.phase = "predict"
    /\ pe.pc = "idle"
    /\ game.status = "Final"
    /\ \E home_stats \in _get_rolling_stats(game.home_team_id, game.game_date, game.id),
          away_stats \in _get_rolling_stats(game.away_team_id, game.game_date, game.id) :
          pe' = [pe EXCEPT !.feat = <<FeatCall(game.sport, game, home_stats, away_stats)>>,
                           !.vec = <<>>, !.rounded = <<>>, !.out = <<>>]
    /\ UNCHANGED <<games, db, sched, elo, roll, basis, dist, fcall, calc>>

(* _generate_predictions_for_sport: a new engine, the scheduled games of   *)
(* the sport in the order the query returns them, `if games:`              *)
PredictStart(sport) ==
    /\ sched.phase = "predict"
    /\ pe.pc = "idle"
    /\ LET scheduled == {g \in Range(games) : g.sport = sport /\ g.status = "scheduled"}
       IN  /\ scheduled # {}
           /\ \E order \in AnyOrder(scheduled) :
                 pe' = [pe EXCEPT !.pc = "batch", !.batch = order, !.i = 1,
                                  !.predictions = <<>>,
                                  !.feat = <<>>, !.vec = <<>>,
                                  !.rounded = <<>>, !.out = <<>>]
    /\ UNCHANGED <<games, db, sched, elo, roll, basis, dist, fcall, calc>>

(* one iteration of `for game in games` in predict_games_batch: an         *)
(* exception of predict_game leaves the loop and the method                *)
PredictGame ==
    /\ pe.pc = "batch"
    /\ pe.i <= Len(pe.batch)
    /\ LET game == pe.batch[pe.i]
       IN  \E home_stats \in _get_rolling_stats(game.home_team_id, game.game_date, game.id),
              away_stats \in _get_rolling_stats(game.away_team_id, game.game_date, game.id) :
              LET call == FeatCall(EngineerSport(pe.models_dir[game.sport], game), game,
                                   home_stats, away_stats)
              IN  \E home_win_prob \in Probs, raw \in RawScores, fault \in BOOLEAN :
                     LET r == predict_game(pe.models_dir[game.sport], game, call,
                                           home_win_prob, raw, fault)
                     IN  pe' = [pe EXCEPT
                                  !.pc = IF r.raised THEN "aborted" ELSE "batch",
                                  !.i = IF r.raised THEN @ ELSE @ + 1,
                                  !.predictions = IF r.raised \/ r.out = <<>>
                                                  THEN @ ELSE Append(@, r.out[1]),
                                  !.feat = r.feat, !.vec = r.vec,
                                  !.rounded = r.rounded, !.out = r.out]
    /\ UNCHANGED <<games, db, sched, elo, roll, basis, dist, fcall, calc>>

(* the flush after the loop and `return predictions` *)
PredictFlush ==
    /\ pe.pc = "batch"
    /\ pe.i > Len(pe.batch)
    /\ pe' = [pe EXCEPT !.pc = "returned"]
    /\ UNCHANGED <<games, db, sched, elo, roll, basis, dist, fcall, calc>>

(* the caller's `await db.commit()` *)
PredictCommit ==
    /\ pe.pc = "returned"
    /\ pe' = [pe EXCEPT !.pc = "idle", !.stored = @ \o pe.predictions,
                        !.batch = <<>>, !.i = 0, !.predictions = <<>>]
    /\ sched' = NextDay
    /\ UNCHANGED <<games, db, elo, roll, basis, dist, fcall, calc>>

(* the caller's `except Exception: db.rollback()` *)
PredictFail ==
    /\ pe.pc = "aborted"
    /\ pe' = [pe EXCEPT !.pc = "idle", !.batch = <<>>, !.i = 0, !.predictions = <<>>]
    /\ sched' = NextDay
    /\ UNCHANGED <<games, db, elo, roll, basis, dist, fcall, calc>>

NextPredict ==
    \/ \E game \in Range(games) : TrainFeatures(game)
    \/ \E sport \in Sports : PredictStart(sport)
    \/ PredictGame
    \/ PredictFlush
    \/ PredictCommit
    \/ PredictFail

SpecPredict == InitPredict /\ [][NextPredict]_vars

(* ---------------- generate_predictions_job over all sports -------------- *)
(* list(SPORT_CONFIGS.keys()), in the order of the configuration: the two  *)
(* sports of AllSports                                                     *)
get_all_sports == <<"NBA", "NHL">>

(* three completed games and then one scheduled game per sport, NBA        *)
(* between A and B and NHL between D and E                                 *)
JobGame(i) ==
    LET nba == i % 2 = 1
        k   == (i + 1) \div 2
    IN  [id |-> i, sport |-> IF nba THEN "NBA" ELSE "NHL", season |-> 1,
         game_date |-> k,
         status |-> IF k <= 3 THEN "Final" ELSE "scheduled",
         home_team_id |-> IF nba THEN (IF k % 2 = 1 THEN "A" ELSE "B")
                          ELSE (IF k % 2 = 1 THEN "D" ELSE "E"),
         away_team_id |-> IF nba THEN (IF k % 2 = 1 THEN "B" ELSE "A")
                          ELSE (IF k % 2 = 1 THEN "E" ELSE "D"),
         home_score |-> IF k <= 3 THEN 3 ELSE None,
         away_score |-> IF k <= 3 THEN 2 ELSE None]

(* the 08:00 job is due and no rating or rolling run has committed yet;    *)
(* each sport has its trained artifact or none; the NHL game of day 4 is   *)
(* stored or not                                                           *)
InitGenerate ==
    /\ \E n \in {7, 8} : games = [i \in 1..n |-> JobGame(i)]
    /\ db = [team_elo |-> [t \in Teams |-> INITIAL_ELO * 100],
             elo_history |-> <<>>,
             rolling_stats |-> {}]
    /\ sched = [phase |-> "predict", day |-> 1]
    /\ elo = EloIdle
    /\ calc = CalcIdle
    /\ roll = RollIdle
    /\ basis = [elo |-> {}, roll |-> [games |-> {}, elo_map |-> EmptyMap]]
    /\ \E trained \in SUBSET AllSports :
          pe = [PeIdle EXCEPT
                  !.job = 1,
                  !.models_dir = [s \in AllSports |->
                                     IF s \in trained THEN <<TrainedArtifact(s)>>
                                     ELSE <<>>]]
    /\ dist = DistIdle
    /\ fcall = CallIdle

(* `for sport in get_all_sports()`: _generate_predictions_for_sport up to  *)
(* the batch; without scheduled games the run ends with nothing to commit  *)
GenerateSport ==
    /\ sched.phase = "predict"
    /\ pe.pc = "idle"
    /\ pe.job \in 1..Len(get_all_sports)
    /\ LET sport == get_all_sports[pe.job]
           scheduled == {g \in Range(games) : g.sport = sport /\ g.status = "scheduled"}
       IN  IF scheduled = {}
           THEN pe' = [pe EXCEPT !.job = @ + 1,
                                 !.runs = Append(@, [sport |-> sport, end |-> "empty"])]
           ELSE \E order \in AnyOrder(scheduled) :
                   pe' = [pe EXCEPT !.pc = "batch", !.batch = order, !.i = 1,
                                    !.predictions = <<>>,
                                    !.feat = <<>>, !.vec = <<>>,
                                    !.rounded = <<>>, !.out = <<>>]
    /\ UNCHANGED <<games, db, sched, elo, roll, basis, dist, fcall, calc>>

(* `await db.commit()` of the sport's run; the loop goes to the next sport *)
GenerateCommit ==
    /\ pe.job \in 1..Len(get_all_sports)
    /\ pe.pc = "returned"
    /\ pe' = [pe EXCEPT !.pc = "idle", !.stored = @ \o pe.predictions,
                        !.batch = <<>>, !.i = 0, !.predictions = <<>>,
                        !.job = @ + 1,
                        !.runs = Append(@, [sport |-> get_all_sports[pe.job],
                                            end |-> "committed"])]
    /\ UNCHANGED <<games, db, sched, elo, roll, basis, dist, fcall, calc>>

(* mutant: the exception of one sport's run ends the job *)
GenerateFail_EndsJob ==
    /\ pe.job \in 1..Len(get_all_sports)
    /\ pe.pc = "aborted"
    /\ pe' = [pe EXCEPT !.pc = "idle", !.batch = <<>>, !.i = 0, !.predictions = <<>>,
                        !.job = Len(get_all_sports) + 1,
                        !.runs = Append(@, [sport |-> get_all_sports[pe.job],
                                            end |-> "failed"])]
    /\ UNCHANGED <<games, db, sched, elo, roll, basis, dist, fcall, calc>>

(* `except Exception: db.rollback()` inside the sport's run; the loop goes *)
(* to the next sport                                                       *)
GenerateFail ==
    /\ pe.job \in 1..Len(get_all_sports)
    /\ pe.pc = "aborted"
    /\ pe' = [pe EXCEPT !.pc = "idle", !.batch = <<>>, !.i = 0, !.predictions = <<>>,
                        !.job = @ + 1,
                        !.runs = Append(@, [sport |-> get_all_sports[pe.job],
                                            end |-> "failed"])]
    /\ UNCHANGED <<games, db, sched, elo, roll, basis, dist, fcall, calc>>

(* the job returns after the last sport *)
GenerateDone ==
    /\ sched.phase = "predict"
    /\ pe.pc = "idle"
    /\ pe.job = Len(get_all_sports) + 1
    /\ pe' = [pe EXCEPT !.job = 0]
    /\ sched' = NextDay
    /\ UNCHANGED <<games, db, elo, roll, basis, dist, fcall, calc>>

NextGenerate ==
    \/ GenerateSport
    \/ PredictGame
    \/ PredictFlush
    \/ GenerateCommit
    \/ GenerateFail
    \/ GenerateDone

SpecGenerate == InitGenerate /\ [][NextGenerate]_vars

(* ------------- the prediction job on the following mornings ------------ *)
(* the job is due on day 1; only the NBA has a scheduled game, and only    *)
(* the NBA may have its trained artifact                                   *)
InitRepeat ==
    /\ InitGenerate
    /\ Len(games) = 7
    /\ pe.models_dir["NHL"] = <<>>

(* cron hour=8 of the next day: the job runs again over the games that are *)
(* still scheduled                                                         *)
GenerateAgain ==
    /\ sched.phase = "fetch"
    /\ sched.day <= MaxDays
    /\ pe.pc = "idle"
    /\ pe.job = 0
    /\ pe' = [pe EXCEPT !.job = 1, !.runs = <<>>]
    /\ sched' = [sched EXCEPT !.phase = "predict"]
    /\ UNCHANGED <<games, db, elo, roll, basis, dist, fcall, calc>>

NextRepeat ==
    \/ NextGenerate
    \/ GenerateAgain

SpecRepeat == InitRepeat /\ [][NextRepeat]_vars

(* ------------ two calls of calculate_all_elos on one sport ------------- *)
(* The database is PostgreSQL (config.py: postgresql+asyncpg) at its       *)
(* default isolation: every statement reads what is committed when it      *)
(* starts plus its own session's changes; update and delete lock the rows  *)
(* they touch until the session commits or rolls back, and a statement that *)
(* meets a row locked by another session waits.                            *)

(* mutant: no statement waits for another session *)
LockedByOther_None(c) == {}

(* the rows sessions other than c's hold locked: the teams they updated    *)
(* and the history rows they deleted                                       *)
LockedByOther(c) ==
    UNION { {<<"teams", t>> : t \in DOMAIN calc.run[o].team_elo}
            \cup {<<"team_elo_history", id>> : id \in calc.run[o].deleted}
            : o \in Callers \ {c} }

(* TeamEloHistory rows as inserted: the primary key comes from the table's *)
(* sequence                                                                *)
WithIds(records, last_id) ==
    [k \in 1..Len(records) |->
        [id |-> last_id + k, team_id |-> records[k].team_id,
         game_id |-> records[k].game_id, game_date |-> records[k].game_date,
         elo_before |-> records[k].elo_before, elo_after |-> records[k].elo_after]]

(* what a session's commit leaves in the tables: its team updates, its     *)
(* deletes and its inserts                                                 *)
Committed(run, inserted) ==
    [db EXCEPT
       !.team_elo = [t \in Teams |->
                        IF t \in DOMAIN run.team_elo THEN run.team_elo[t] ELSE @[t]],
       !.elo_history = SelectSeq(@, LAMBDA r : r.id \notin run.deleted) \o inserted]

(* one to MaxGames completed NBA games on consecutive days; the tables     *)
(* hold the result of an earlier run over the first `prior` of them        *)
InitCalc ==
    /\ \E n \in 1..MaxGames :
          \E kinds \in [1..n -> GameKinds] :
             games = [k \in 1..n |->
                        [id |-> k, sport |-> "NBA", season |-> 1, game_date |-> k,
                         status |-> "Final",
                         home_team_id |-> kinds[k].home_team_id,
                         away_team_id |-> kinds[k].away_team_id,
                         home_score |-> kinds[k].home_score,
                         away_score |-> kinds[k].away_score]]
    /\ \E prior \in 0..Len(games) :
          LET st == EloReplayOf(get_sport_config("NBA"), games, prior)
          IN  /\ db = [team_elo |-> [t \in Teams |->
                                        IF t \in DOMAIN st.elos THEN st.elos[t]
                                        ELSE INITIAL_ELO * 100],
                       elo_history |-> WithIds(st.history_records, 0),
                       rolling_stats |-> {}]
              /\ calc = [CalcIdle EXCEPT !.history_id = Len(st.history_records)]
    /\ sched = [phase |-> "elos", day |-> 1]
    /\ elo = EloIdle
    /\ roll = RollIdle
    /\ basis = [elo |-> {}, roll |-> [games |-> {}, elo_map |-> EmptyMap]]
    /\ pe = PeIdle
    /\ dist = DistIdle
    /\ fcall = CallIdle

(* update(Team).where(Team.sport == sport).values(current_elo=INITIAL_ELO) *)
CalcReset(c, sport) ==
    /\ calc.run[c].pc = "idle"
    /\ \A t \in SportTeams(sport) : <<"teams", t>> \notin LockedByOther(c)
    /\ calc' = [calc EXCEPT
                  !.run[c].pc = "clear",
                  !.run[c].sport = sport,
                  !.run[c].team_elo = [t \in SportTeams(sport) |-> INITIAL_ELO * 100]]
    /\ UNCHANGED <<games, db, sched, elo, roll, basis, pe, dist, fcall>>

(* the history delete, then the ordered query and `if not games: return` *)
CalcClear(c) ==
    LET run == calc.run[c]
        rows == {r.id : r \in {h \in Range(db.elo_history) :
                                  h.team_id \in SportTeams(run.sport)}}
    IN  /\ run.pc = "clear"
        /\ \A id \in rows : <<"team_elo_history", id>> \notin LockedByOther(c)
        /\ \E order \in OrderedByDate(CompletedGames(run.sport)) :
              calc' = [calc EXCEPT
                         !.run[c].pc = IF Len(order) = 0 THEN "returned" ELSE "loop",
                         !.run[c].deleted = rows,
                         !.run[c].games = order,
                         !.run[c].i = 1]
        /\ UNCHANGED <<games, db, sched, elo, roll, basis, pe, dist, fcall>>

(* one iteration of `for game in games` *)
CalcGame(c) ==
    LET run == calc.run[c]
    IN  /\ run.pc = "loop"
        /\ run.i <= Len(run.games)
        /\ LET st == EloStep(get_sport_config(run.sport),
                             [elos |-> run.elos, current_season |-> run.current_season,
                              history_records |-> run.history_records],
                             run.games[run.i])
           IN  calc' = [calc EXCEPT !.run[c].i = @ + 1,
                                    !.run[c].elos = st.elos,
                                    !.run[c].current_season = st.current_season,
                                    !.run[c].history_records = st.history_records]
        /\ UNCHANGED <<games, db, sched, elo, roll, basis, pe, dist, fcall>>

(* add_all(history_records), update(Team) per rated team, flush, commit *)
CalcWrite(c) ==
    LET run == calc.run[c]
        team_elo == [t \in DOMAIN run.team_elo \cup DOMAIN run.elos |->
                        IF t \in DOMAIN run.elos THEN run.elos[t] ELSE run.team_elo[t]]
    IN  /\ run.pc = "loop"
        /\ run.i > Len(run.games)
        /\ \A t \in DOMAIN run.elos : <<"teams", t>> \notin LockedByOther(c)
        /\ db' = Committed([run EXCEPT !.team_elo = team_elo],
                           WithIds(run.history_records, calc.history_id))
        /\ calc' = [calc EXCEPT
                      !.history_id = @ + Len(run.history_records),
                      !.run[c].pc = "returned",
                      !.run[c].team_elo = EmptyMap,
                      !.run[c].deleted = {},
                      !.run[c].end = "committed"]
        /\ UNCHANGED <<games, sched, elo, roll, basis, pe, dist, fcall>>

(* the caller's commit after the call returned: `await db.commit()` of the *)
(* job, the commit of get_db for the endpoint                              *)
CalcCallerCommit(c) ==
    LET run == calc.run[c]
    IN  /\ run.pc = "returned"
        /\ db' = Committed(run, <<>>)
        /\ calc' = [calc EXCEPT
                      !.run[c].pc = "done",
                      !.run[c].team_elo = EmptyMap,
                      !.run[c].deleted = {},
                      !.run[c].end = "committed"]
        /\ UNCHANGED <<games, sched, elo, roll, basis, pe, dist, fcall>>

(* an exception before the commit: `except Exception: db.rollback()` *)
CalcFail(c) ==
    /\ calc.run[c].pc \in {"clear", "loop"}
    /\ calc' = [calc EXCEPT
                  !.run[c].pc = "done",
                  !.run[c].team_elo = EmptyMap,
                  !.run[c].deleted = {},
                  !.run[c].end = "failed"]
    /\ UNCHANGED <<games, db, sched, elo, roll, basis, pe, dist, fcall>>

NextCalc ==
    \/ \E c \in Callers, sport \in Sports : CalcReset(c, sport)
    \/ \E c \in Callers : CalcClear(c)
    \/ \E c \in Callers : CalcGame(c)
    \/ \E c \in Callers : CalcWrite(c)
    \/ \E c \in Callers : CalcCallerCommit(c)
    \/ \E c \in Callers : CalcFail(c)

SpecCalc == InitCalc /\ [][NextCalc]_vars

(* ------------------- functions called on their own --------------------- *)
(* The arguments of one call: a scored game and the two ratings before it, *)
(* or a team history of won flags, oldest first.                           *)
InitCalls ==
    /\ games = <<>>
    /\ db = [team_elo |-> [t \in Teams |-> INITIAL_ELO * 100],
             elo_history |-> <<>>,
             rolling_stats |-> {}]
    /\ sched = [phase |-> "fetch", day |-> 1]
    /\ elo = EloIdle
    /\ calc = CalcIdle
    /\ roll = RollIdle
    /\ basis = [elo |-> {}, roll |-> [games |-> {}, elo_map |-> EmptyMap]]
    /\ pe = PeIdle
    /\ dist = DistIdle
    /\ \/ \E sport \in AllSports,
              home_elo \in {130000, 150000, 151234, 170000},
              away_elo \in {130000, 150000, 151234, 170000},
              score \in {<<3, 1>>, <<1, 3>>, <<2, 2>>, <<0, 0>>, <<7, 0>>, <<100, 107>>} :
              fcall = [pc |-> "called", fn |-> "game",
                      args |-> [game |-> [id |-> 1, sport |-> sport, season |-> 1,
                                          game_date |-> 1, status |-> "Final",
                                          home_team_id |-> "A", away_team_id |-> "B",
                                          home_score |-> score[1],
                                          away_score |-> score[2]],
                                home_elo |-> home_elo, away_elo |-> away_elo],
                      out |-> <<>>]
       \/ \E n \in 0..MaxHistory :
              \E won \in [1..n -> BOOLEAN] :
                 fcall = [pc |-> "called", fn |-> "_compute_stats_from_history",
                         args |-> [history |-> [k \in 1..n |->
                                                   [game_id |-> k, won |-> won[k]]]],
                         out |-> <<>>]

(* the period-score lists a stored game can carry for a team: none, too    *)
(* few for the sport, all zero, regulation only, regulation and overtime   *)
PeriodScoreKinds ==
    { <<>>, <<1, 2>>, <<0, 0, 0, 0>>, <<1, 2, 3, 4>>, <<2, 0, 1, 5, 3>> }

(* n games of team A, one a day, at home on odd days; the oldest, the      *)
(* newest and the games between carry a kind of period scores each, the    *)
(* opponent always four nines; the newest is Final or still scheduled      *)
InitPeriods ==
    /\ \E n \in {0, 2, 21}, newest_status \in {"Final", "scheduled"} :
          \E kind \in [{"oldest", "between", "newest"} -> PeriodScoreKinds] :
             games = [i \in 1..n |->
                        LET own == IF i = 1 THEN kind["oldest"]
                                   ELSE IF i = n THEN kind["newest"]
                                   ELSE kind["between"]
                        IN  [id |-> i, sport |-> "NBA", season |-> 1, game_date |-> i,
                             status |-> IF i = n THEN newest_status ELSE "Final",
                             home_team_id |-> IF i % 2 = 1 THEN "A" ELSE "B",
                             away_team_id |-> IF i % 2 = 1 THEN "B" ELSE "A",
                             home_score |-> 3, away_score |-> 2,
                             home_period_scores |->
                                 IF i % 2 = 1 THEN own ELSE <<9, 9, 9, 9>>,
                             away_period_scores |->
                                 IF i % 2 = 1 THEN <<9, 9, 9, 9>> ELSE own]]
    /\ db = [team_elo |-> [t \in Teams |-> INITIAL_ELO * 100],
             elo_history |-> <<>>,
             rolling_stats |-> {}]
    /\ sched = [phase |-> "fetch", day |-> 1]
    /\ elo = EloIdle
    /\ calc = CalcIdle
    /\ roll = RollIdle
    /\ basis = [elo |-> {}, roll |-> [games |-> {}, elo_map |-> EmptyMap]]
    /\ pe = PeIdle
    /\ dist = DistIdle
    /\ \E num_periods \in {3, 4} :
          fcall = [pc |-> "called", fn |-> "_get_period_percentages",
                   args |-> [team_id |-> "A", num_periods |-> num_periods],
                   out |-> <<>>]

PeriodPercentages ==
    /\ fcall.pc = "called"
    /\ fcall.fn = "_get_period_percentages"
    /\ fcall' = [fcall EXCEPT
                   !.pc = "returned",
                   !.out = _get_period_percentages(fcall.args.team_id,
                                                   fcall.args.num_periods)]
    /\ UNCHANGED <<games, db, sched, elo, roll, basis, pe, dist, calc>>

NextPeriods == PeriodPercentages

SpecPeriods == InitPeriods /\ [][NextPeriods]_vars

(* what the rating loop and the rolling loop compute for one scored game:  *)
(* update_elo on the ratings before it, and the two history entries        *)
ProcessScoredGame ==
    /\ fcall.pc = "called"
    /\ fcall.fn = "game"
    /\ LET game == fcall.args.game
       IN  fcall' = [fcall EXCEPT
                      !.pc = "returned",
                      !.out = [elo  |-> update_elo(get_sport_config(game.sport),
                                                   fcall.args.home_elo, fcall.args.away_elo,
                                                   game.home_score, game.away_score),
                               home |-> HistoryEntry(game, TRUE),
                               away |-> HistoryEntry(game, FALSE)]]
    /\ UNCHANGED <<games, db, sched, elo, roll, basis, pe, dist, calc>>

ComputeStats ==
    /\ fcall.pc = "called"
    /\ fcall.fn = "_compute_stats_from_history"
    /\ fcall' = [fcall EXCEPT
                  !.pc = "returned",
                  !.out = _compute_stats_from_history(fcall.args.history,
                                                      INITIAL_ELO * 100, "NBA", TRUE)]
    /\ UNCHANGED <<games, db, sched, elo, roll, basis, pe, dist, calc>>

NextCalls ==
    \/ ProcessScoredGame
    \/ ComputeStats

SpecCalls == InitCalls /\ [][NextCalls]_vars

(* -------------------------- BallDontLieClient -------------------------- *)
(* what one HTTP attempt can end in: a status code, or an httpx.HTTPError  *)
(* that is not a status error (timeout, connection failure)                *)
Responses == {"200", "403", "404", "429", "500", "HTTPError"}

(* a call of _request before its first attempt; requests, waits and seen   *)
(* record the attempts made, the sleeps taken and what each attempt met    *)
InitRequest ==
    /\ games = <<>>
    /\ db = [team_elo |-> [t \in Teams |-> INITIAL_ELO * 100],
             elo_history |-> <<>>,
             rolling_stats |-> {}]
    /\ sched = [phase |-> "fetch", day |-> 1]
    /\ elo = EloIdle
    /\ calc = CalcIdle
    /\ roll = RollIdle
    /\ basis = [elo |-> {}, roll |-> [games |-> {}, elo_map |-> EmptyMap]]
    /\ pe = PeIdle
    /\ dist = DistIdle
    /\ \E url \in {"nba/teams", "nfl/teams"} :
          fcall = [pc |-> "loop", fn |-> "_request",
                   args |-> [method |-> "GET", url |-> url], out |-> <<>>,
                   attempt |-> 0, requests |-> 0, waits |-> <<>>, seen |-> <<>>]

(* one iteration of `for attempt in range(self.MAX_RETRIES)`: the token,   *)
(* the request, and the return, raise, or sleep and next attempt           *)
RequestAttempt(response) ==
    /\ fcall.fn = "_request"
    /\ fcall.pc = "loop"
    /\ fcall.attempt < MAX_RETRIES
    /\ LET made == [fcall EXCEPT !.requests = @ + 1, !.seen = Append(@, response)]
           retry(wait) == [made EXCEPT !.waits = Append(@, wait), !.attempt = @ + 1]
       IN  fcall' =
             CASE response = "200" -> [made EXCEPT !.pc = "returned", !.out = <<"json">>]
               [] response = "403" -> [made EXCEPT !.pc = "returned", !.out = <<"empty">>]
               [] response = "429" -> retry(15)
               [] response = "500" -> retry(2 ^ fcall.attempt)
               [] response = "404" ->
                    [made EXCEPT !.pc = "raised", !.out = <<"HTTPStatusError">>]
               [] response = "HTTPError" ->
                    IF fcall.attempt < MAX_RETRIES - 1
                    THEN retry(2 ^ fcall.attempt)
                    ELSE [made EXCEPT !.pc = "raised", !.out = <<"HTTPError">>]
    /\ UNCHANGED <<games, db, sched, elo, roll, basis, pe, dist, calc>>

(* after the loop: `return {"data": []}` *)
RequestExhausted ==
    /\ fcall.fn = "_request"
    /\ fcall.pc = "loop"
    /\ fcall.attempt >= MAX_RETRIES
    /\ fcall' = [fcall EXCEPT !.pc = "returned", !.out = <<"empty">>]
    /\ UNCHANGED <<games, db, sched, elo, roll, basis, pe, dist, calc>>

NextRequest ==
    \/ \E response \in Responses : RequestAttempt(response)
    \/ RequestExhausted

SpecRequest == InitRequest /\ [][NextRequest]_vars

(* ============================== properties ============================= *)
MissingScore(g) == g.home_score = None \/ g.away_score = None

ScoredIds(ids) == {g.id : g \in {x \in Range(games) : x.id \in ids /\ ~MissingScore(x)}}

IdsOf(seq) == {seq[k].id : k \in 1..Len(seq)}

StoredFinalIds(sport) == {g.id : g \in CompletedGames(sport)}

PosOf(seq, id) == CHOOSE p \in 1..Len(seq) : seq[p].id = id

SeasonChangesBetween(seq, q, p) ==
    Cardinality({m \in (q + 1)..p : seq[m].season # seq[m - 1].season})

RECURSIVE RegressTimes(_, _, _)
RegressTimes(cfg, x, n) ==
    IF n = 0 THEN x ELSE RegressTimes(cfg, season_reset(cfg, x), n - 1)

PrevEntries(H, k) == {j \in 1..(k - 1) : H[j].team_id = H[k].team_id}

LastOf(S) == CHOOSE j \in S : \A m \in S : m <= j

RowsOf(seq, team_id, game_id) ==
    Cardinality({k \in 1..Len(seq) :
                    seq[k].team_id = team_id /\ seq[k].game_id = game_id})

(* C1: a rating recompute, or a rolling recompute, that runs to its end on  *)
(* the stored game set (and rating history) the committed result was       *)
(* computed from commits that same result again                            *)
C1_RecomputeDeterministic ==
    [][ /\ ( /\ elo.pc = "loop" /\ elo'.pc = "returned"
             /\ basis.elo = IdsOf(elo.games) )
           => ( /\ db'.elo_history = db.elo_history
                /\ db'.team_elo = db.team_elo )
        /\ ( /\ roll.pc = "loop" /\ roll'.pc = "returned"
             /\ basis.roll = [games |-> IdsOf(roll.games), elo_map |-> roll.elo_map] )
           => db'.rolling_stats = db.rolling_stats ]_vars

(* C2: no lookahead: every game in the history a committed snapshot was    *)
(* computed from is dated strictly before the snapshot's own game          *)
C2_NoLookahead ==
    \A r \in db.rolling_stats :
        \A k \in 1..Len(r.src) : games[r.src[k]].game_date < r.as_of_date

(* C3: the rolling recompute is all-or-nothing: the committed snapshots of  *)
(* the sport are always those of a replay that ran to its end (the games   *)
(* named by basis.roll), never those of a prefix of a failed replay        *)
C3_RollingAllOrNothing ==
    roll.pc = "idle" =>
        {r.game_id : r \in db.rolling_stats} = ScoredIds(basis.roll.games)

(* C4: the rating recompute is all-or-nothing: the committed ratings and   *)
(* rating history change only in the step that commits a replay of every   *)
(* queried game, and then hold that replay's complete output               *)
C4_EloAllOrNothing ==
    [][ (db'.team_elo # db.team_elo \/ db'.elo_history # db.elo_history) =>
          /\ elo.pc = "returned" \/ (elo.pc = "loop" /\ elo.i > Len(elo.games))
          /\ {db'.elo_history[k].game_id : k \in 1..Len(db'.elo_history)}
                = ScoredIds(IdsOf(elo.games))
          /\ Len(db'.elo_history) = 2 * Cardinality(ScoredIds(IdsOf(elo.games)))
          /\ db'.elo_history =
                (IF elo.pc = "returned" THEN elo.elo_history ELSE elo'.elo_history)
          /\ db'.team_elo =
                (IF elo.pc = "returned" THEN elo.team_elo ELSE elo'.team_elo) ]_vars

(* a recompute failed on a later day: the committed history is still the   *)
(* one of the earlier recompute                                            *)
C4_Witness ==
    /\ sched.day = 3 /\ sched.phase = "fetch"
    /\ db.elo_history # <<>>
    /\ basis.elo # StoredFinalIds("NBA")
    /\ db.team_elo["A"] # INITIAL_ELO * 100

(* C5: once the day's jobs have run to their end on the stored games, the  *)
(* elo metric of every snapshot is the rating-before of the rating-history *)
(* entry of the same team and game                                         *)
C5_SnapshotEloIsRatingBefore ==
    ( /\ sched.phase = "fetch" /\ sched.day > 1
      /\ basis.elo = StoredFinalIds("NBA")
      /\ basis.roll.games = StoredFinalIds("NBA") )
    => \A r \in db.rolling_stats :
          \E k \in 1..Len(db.elo_history) :
              /\ db.elo_history[k].team_id = r.team_id
              /\ db.elo_history[k].game_id = r.game_id
              /\ db.elo_history[k].elo_before = r.stats.elo

(* C6: in the history a replay writes, rating-before is 1500 for a team's  *)
(* first entry, otherwise the rating-after of the team's previous entry    *)
(* regressed once per season change detected between the two games         *)
C6_RatingBeforeChain ==
    LET H   == elo.history_records
        cfg == get_sport_config(elo.sport)
    IN  \A k \in 1..Len(H) :
          IF PrevEntries(H, k) = {}
          THEN H[k].elo_before = INITIAL_ELO * 100
          ELSE LET j == LastOf(PrevEntries(H, k))
                   n == SeasonChangesBetween(elo.games,
                            PosOf(elo.games, H[j].game_id),
                            PosOf(elo.games, H[k].game_id))
               IN  H[k].elo_before = RegressTimes(cfg, H[j].elo_after, n)

(* a team's second entry across a season change, its rating regressed *)
C6_Witness ==
    /\ elo.pc = "returned"
    /\ \E k \in 1..Len(elo.history_records) :
         /\ PrevEntries(elo.history_records, k) # {}
         /\ LET j == LastOf(PrevEntries(elo.history_records, k))
            IN  /\ SeasonChangesBetween(elo.games,
                       PosOf(elo.games, elo.history_records[j].game_id),
                       PosOf(elo.games, elo.history_records[k].game_id)) > 0
                /\ elo.history_records[k].elo_before # elo.history_records[j].elo_after

(* C7: a replay that met score-less games ends with the ratings and the    *)
(* history of the replay of the same games without the score-less ones     *)
C7_ScorelessGameHasNoEffect ==
    (elo.pc = "returned" /\ Len(elo.games) > 0) =>
        LET kept == SelectSeq(elo.games, LAMBDA g : ~MissingScore(g))
            ref  == EloReplayOf(get_sport_config(elo.sport), kept, Len(kept))
        IN  /\ elo.elo_history = ref.history_records
            /\ \A t \in SportTeams(elo.sport) :
                  elo.team_elo[t] = EloOf(ref.elos, t)

(* C8: a rolling replay that met score-less games ends with the snapshots  *)
(* and the team histories of the replay of the same games without them     *)
C8_ScorelessGameLeavesNoTrace ==
    roll.pc = "returned" =>
        LET kept == SelectSeq(roll.games, LAMBDA g : ~MissingScore(g))
            st0  == [RollIdle EXCEPT
                       !.sport = roll.sport,
                       !.elo_map = roll.elo_map,
                       !.rolling_stats =
                           {r \in roll.rolling_stats : r.sport # roll.sport}]
            ref  == RollReplayOf(st0, roll.sport, kept, Len(kept))
        IN  /\ roll.rolling_stats = ref.rolling_stats
            /\ roll.team_history = ref.team_history
            /\ roll.records_created = ref.records_created
            /\ \A r \in roll.rolling_stats : \A k \in 1..Len(roll.games) :
                  MissingScore(roll.games[k]) => r.game_id # roll.games[k].id

(* a score-less game replayed before a scored game of one of its teams *)
C8_Witness ==
    /\ roll.pc = "returned"
    /\ \E p, q \in 1..Len(roll.games) :
         /\ p < q
         /\ MissingScore(roll.games[p])
         /\ ~MissingScore(roll.games[q])
         /\ {roll.games[p].home_team_id, roll.games[p].away_team_id}
               \cap {roll.games[q].home_team_id, roll.games[q].away_team_id} # {}
         /\ \E r \in roll.rolling_stats :
               r.game_id = roll.games[q].id /\ r.games_played = 0

(* C9: in one loop iteration the season regression is applied to every     *)
(* team rated so far exactly when the game's season differs from that of   *)
(* the game replayed immediately before, once, and before the game's       *)
(* ratings-before are read and its update applied                          *)
C9_SeasonRegressionTiming ==
    [][ (elo.pc = "loop" /\ elo'.pc = "loop" /\ elo'.i = elo.i + 1) =>
          LET cfg     == get_sport_config(elo.sport)
              game    == elo.games[elo.i]
              changed == elo.i > 1 /\ game.season # elo.games[elo.i - 1].season
              R(x)    == IF changed THEN season_reset(cfg, x) ELSE x
              before(t) == IF t \in DOMAIN elo.elos
                           THEN R(elo.elos[t]) ELSE INITIAL_ELO * 100
              playing == {game.home_team_id, game.away_team_id}
              n       == Len(elo.history_records)
          IN  /\ \A t \in DOMAIN elo.elos \ playing : elo'.elos[t] = R(elo.elos[t])
              /\ IF MissingScore(game)
                 THEN /\ elo'.history_records = elo.history_records
                      /\ \A t \in playing : elo'.elos[t] = before(t)
                 ELSE LET new == update_elo(cfg, before(game.home_team_id),
                                            before(game.away_team_id),
                                            game.home_score, game.away_score)
                      IN  /\ Len(elo'.history_records) = n + 2
                          /\ elo'.history_records[n + 1].elo_before = before(game.home_team_id)
                          /\ elo'.history_records[n + 2].elo_before = before(game.away_team_id)
                          /\ elo'.elos[game.home_team_id] = new.new_home
                          /\ elo'.elos[game.away_team_id] = new.new_away ]_vars

(* the game after a season change has been replayed; a rated team that did *)
(* not play it was regressed                                               *)
C9_Witness ==
    /\ elo.pc = "loop" /\ elo.i = 3
    /\ elo.games[2].season # elo.games[1].season
    /\ \E t \in DOMAIN elo.elos :
         /\ t \notin {elo.games[2].home_team_id, elo.games[2].away_team_id}
         /\ elo.elos[t] # INITIAL_ELO * 100

(* C10: the committed rating history holds one entry per team of every     *)
(* scored completed game of the last completed recompute (basis.elo) and   *)
(* nothing else, and a team without such a game is rated 1500              *)
C10_HistoryIsExactlyThePairs ==
    /\ \A g \in Range(games) : \A t \in Teams :
          RowsOf(db.elo_history, t, g.id) =
             (IF /\ g.id \in basis.elo
                 /\ g.status = "Final"
                 /\ ~MissingScore(g)
                 /\ t \in {g.home_team_id, g.away_team_id}
              THEN 1 ELSE 0)
    /\ \A k \in 1..Len(db.elo_history) : db.elo_history[k].game_id \in 1..Len(games)
    /\ \A t \in Teams :
          (\A g \in Range(games) :
              (g.id \in basis.elo /\ ~MissingScore(g))
                 => t \notin {g.home_team_id, g.away_team_id})
          => db.team_elo[t] = INITIAL_ELO * 100

(* a second recompute committed over the entries of an earlier one: the    *)
(* day's snapshots carry a rating-before that the earlier history supplied *)
C10_Witness ==
    /\ elo.pc = "returned"
    /\ db.elo_history # <<>>
    /\ db.elo_history = elo.elo_history
    /\ \E r \in db.rolling_stats : r.stats.elo # INITIAL_ELO * 100
    /\ db.team_elo["B"] = INITIAL_ELO * 100

(* C11: when compute_all has returned, the committed snapshots of its     *)
(* sport are exactly one per team of every stored completed game with both *)
(* scores, none belongs to another game, and the returned count is their   *)
(* number (0, with no snapshot, when the sport has no completed game)       *)
C11_OneSnapshotPerTeamOfScoredGame ==
    roll.pc = "returned" =>
        LET mine   == {r \in db.rolling_stats : r.sport = roll.sport}
            scored == {g \in CompletedGames(roll.sport) : ~MissingScore(g)}
        IN  /\ \A g \in Range(games) : \A t \in Teams :
                  Cardinality({r \in mine : r.team_id = t /\ r.game_id = g.id}) =
                     (IF g \in scored /\ t \in {g.home_team_id, g.away_team_id}
                      THEN 1 ELSE 0)
            /\ \A r \in mine : r.game_id \in 1..Len(games)
            /\ roll.records_created = Cardinality(mine)
            /\ CompletedGames(roll.sport) = {} =>
                  (roll.records_created = 0 /\ mine = {})

(* a second day's recompute over a scored and a score-less game returned 2 *)
C11_Witness ==
    /\ roll.pc = "returned" /\ sched.day = 2
    /\ roll.records_created = 2
    /\ \E k \in 1..Len(roll.games) : MissingScore(roll.games[k])
    /\ Cardinality(db.rolling_stats) = 2

(* C13: a rating run for a sport without configuration has raised at the   *)
(* configuration lookup: it is in no later step, and its session holds the *)
(* committed ratings and history untouched (no reset, no delete, no write) *)
C13_UnknownSportFailsBeforeReset ==
    elo.sport \notin DOMAIN SPORT_CONFIGS =>
        /\ elo.pc = "raised"
        /\ elo.team_elo = db.team_elo
        /\ elo.elo_history = db.elo_history

(* the lookup failed on a day when ratings and history were already there  *)
C13_Witness ==
    /\ elo.pc = "raised"
    /\ elo.sport \in UnknownSports
    /\ db.elo_history # <<>>
    /\ db.team_elo["A"] # INITIAL_ELO * 100

TeamsIn(s) == {t \in Teams : TeamSport[t] = s}

SnapsOf(rows, s) == {r \in rows : r.sport = s}

HistOf(seq, s) == SelectSeq(seq, LAMBDA r : TeamSport[r.team_id] = s)

RatingsOf(f, s) == [t \in TeamsIn(s) |-> f[t]]

(* C12: a step of a recompute of one sport leaves the committed ratings,   *)
(* history entries and snapshots of every other sport as they were; and a  *)
(* recompute that overlapped one of another sport commits, for its own     *)
(* sport, what it computes on its own: the replay of its own games (for    *)
(* the snapshots, with the rating-befores of its own sport's history)      *)
C12_OtherSportsUntouched ==
    [][ LET rs == IF roll.pc = "idle" THEN roll'.sport ELSE roll.sport
            es == IF elo.pc = "idle" THEN elo'.sport ELSE elo.sport
        IN  /\ roll' # roll =>
                 /\ \A s \in AllSports \ {rs} :
                       SnapsOf(db'.rolling_stats, s) = SnapsOf(db.rolling_stats, s)
                 /\ db'.team_elo = db.team_elo
                 /\ db'.elo_history = db.elo_history
            /\ elo' # elo =>
                 /\ \A s \in AllSports \ {es} :
                       /\ RatingsOf(db'.team_elo, s) = RatingsOf(db.team_elo, s)
                       /\ HistOf(db'.elo_history, s) = HistOf(db.elo_history, s)
                 /\ db'.rolling_stats = db.rolling_stats
            /\ (roll.pc = "loop" /\ roll'.pc = "returned") =>
                 LET st0 == [RollIdle EXCEPT
                               !.sport = rs,
                               !.elo_map =
                                  [key \in {<<db.elo_history[k].team_id,
                                              db.elo_history[k].game_id>> :
                                               k \in {j \in 1..Len(db.elo_history) :
                                                  TeamSport[db.elo_history[j].team_id] = rs}}
                                     |-> (CHOOSE r \in Range(db.elo_history) :
                                             <<r.team_id, r.game_id>> = key).elo_before]]
                     ref == RollReplayOf(st0, rs, roll.games, Len(roll.games))
                 IN  SnapsOf(db'.rolling_stats, rs) = ref.rolling_stats
            /\ (elo.pc = "loop" /\ elo'.pc = "returned") =>
                 LET ref == EloReplayOf(get_sport_config(es), elo.games, Len(elo.games))
                 IN  /\ HistOf(db'.elo_history, es) = ref.history_records
                     /\ \A t \in TeamsIn(es) :
                           db'.team_elo[t] = EloOf(ref.elos, t) ]_vars

(* both jobs are inside their loops, each on its own sport, over committed *)
(* ratings, history entries and snapshots of both sports                   *)
C12_Witness ==
    /\ roll.pc = "loop" /\ elo.pc = "loop" /\ roll.i = 2 /\ elo.i = 2
    /\ roll.sport # elo.sport
    /\ \A s \in AllSports :
          /\ SnapsOf(db.rolling_stats, s) # {}
          /\ HistOf(db.elo_history, s) # <<>>
          /\ \E t \in TeamsIn(s) : db.team_elo[t] # INITIAL_ELO * 100

(* C18: for a non-negative total and non-negative shares that sum to 1,    *)
(* _distribute_score raises nothing and returns one non-negative value per *)
(* share, in whole tenths, that sum exactly to the total rounded to one    *)
(* decimal                                                                 *)
C18_PeriodsSumToRoundedTotal ==
    dist.pc = "returned" =>
        LET q == dist.total \div 10
            r == dist.total % 10
            rounded == IF r > 5 \/ (r = 5 /\ dist.tie_up) THEN q + 1 ELSE q
        IN  /\ ~dist.out.raised
            /\ Len(dist.out.periods) = Len(dist.pcts)
            /\ \A i \in 1..Len(dist.pcts) : dist.out.periods[i] >= 0
            /\ SumSeq(dist.out.periods, Len(dist.out.periods)) = rounded

(* 0.18 over two equal shares: both floors are 0, the shortfall is 2 *)
C18_Witness ==
    /\ dist.pc = "returned"
    /\ dist.total = 18 /\ dist.pcts = <<6, 6>>
    /\ dist.out.periods = <<1, 1>>

(* ---- feature assembly and prediction (SpecPredict) ---- *)
GameOfId(id) == CHOOSE g \in Range(games) : g.id = id

(* the completed games of a team before a date *)
PriorFinal(team_id, date) ==
    {g \in Range(games) : /\ team_id \in {g.home_team_id, g.away_team_id}
                          /\ g.status = "Final"
                          /\ g.game_date < date}

ThinSnapshot(stats) == stats = <<>> \/ stats[1].games_played < 3

(* C14: a sport-aware compute_features call whose snapshot for either team *)
(* is missing or has games_played < 3 never returns snapshot-derived       *)
(* features: it returns the legacy path's features, or None exactly when    *)
(* either team has fewer than 3 completed games before the game's date     *)
C14_ThinSnapshotFallsBackToLegacy ==
    (/\ pe.feat # <<>>
     /\ pe.feat[1].sport # NoSport
     /\ (ThinSnapshot(pe.feat[1].home_stats) \/ ThinSnapshot(pe.feat[1].away_stats)))
    => LET call == pe.feat[1]
           game == GameOfId(call.game_id)
       IN  IF \/ Cardinality(PriorFinal(game.home_team_id, game.game_date)) < 3
              \/ Cardinality(PriorFinal(game.away_team_id, game.game_date)) < 3
           THEN call.result = <<>>
           ELSE call.result # <<>> /\ call.result[1].path = "legacy"

(* a sport-aware call with a snapshot of fewer than 3 games fell back to   *)
(* the legacy path and got features from it                                *)
C14_Witness ==
    /\ pe.feat # <<>>
    /\ pe.feat[1].sport # NoSport
    /\ \/ (pe.feat[1].home_stats # <<>> /\ pe.feat[1].home_stats[1].games_played < 3)
       \/ (pe.feat[1].away_stats # <<>> /\ pe.feat[1].away_stats[1].games_played < 3)
    /\ pe.feat[1].result # <<>>
    /\ pe.feat[1].result[1].path = "legacy"

(* calendar days from a team's previous completed game to the date, capped *)
(* at 7, and 3 when the team has none                                      *)
RestSincePrevious(team_id, date) ==
    LET prior == PriorFinal(team_id, date)
    IN  IF prior = {} THEN 3
        ELSE LET last == CHOOSE g \in prior : \A x \in prior : x.game_date <= g.game_date
             IN  IF date - last.game_date > 7 THEN 7 ELSE date - last.game_date

(* C15: on every path of compute_features the two rest-days features are   *)
(* the calendar days since each team's previous completed game, capped at  *)
(* 7, and 3 for a team with no previous game                               *)
C15_RestDaysSincePreviousGame ==
    (pe.feat # <<>> /\ pe.feat[1].result # <<>>)
    => LET game     == GameOfId(pe.feat[1].game_id)
           features == pe.feat[1].result[1].features
       IN  /\ features["rest_days_home"]
                = RestSincePrevious(game.home_team_id, game.game_date)
           /\ features["rest_days_away"]
                = RestSincePrevious(game.away_team_id, game.game_date)

(* the artifact of the sport of the game predict_game was last called for *)
LoadedArtifact == pe.models_dir[GameOfId(pe.feat[1].game_id).sport]

(* C16: the vector predict_game hands to the three estimators has one      *)
(* value for each feature name the loaded artifact declares, in the        *)
(* declared order                                                          *)
C16_VectorFollowsDeclaredNames ==
    (/\ pe.vec # <<>>
     /\ LoadedArtifact # <<>>
     /\ LoadedArtifact[1].feature_names # <<>>)
    => LET declared == LoadedArtifact[1].feature_names
           features == pe.feat[1].result[1].features
           vector   == pe.vec[1]
       IN  /\ Len(vector) = Len(declared)
           /\ \A k \in 1..Len(declared) :
                 /\ declared[k] \in DOMAIN features
                 /\ vector[k] = features[declared[k]]

(* C17: a prediction predict_game returns has non-negative whole scores,    *)
(* names the home team as winner exactly when the home win probability is  *)
(* at least 0.5, gives the winner strictly more points than the other team *)
(* (the winner's rounded score is kept when it is already higher, else it  *)
(* is the other rounded score plus 1; the other score is the rounded one), *)
(* and has spread = home - away and total = home + away of those scores    *)
C17_PredictionIsConsistent ==
    pe.out # <<>>
    => LET pred == pe.out[1]
           game == GameOfId(pred.game_id)
           rnd  == pe.rounded[1]
           home_favoured == pred.win_probability >= 500
           fav  == IF home_favoured THEN pred.predicted_home_score
                   ELSE pred.predicted_away_score
           dog  == IF home_favoured THEN pred.predicted_away_score
                   ELSE pred.predicted_home_score
           rfav == IF home_favoured THEN rnd.home ELSE rnd.away
           rdog == IF home_favoured THEN rnd.away ELSE rnd.home
       IN  /\ pred.predicted_home_score \in Nat
           /\ pred.predicted_away_score \in Nat
           /\ pred.predicted_winner_id
                = (IF home_favoured THEN game.home_team_id ELSE game.away_team_id)
           /\ fav > dog
           /\ dog = rdog
           /\ fav = (IF rfav > rdog THEN rfav ELSE rdog + 1)
           /\ pred.predicted_spread
                = pred.predicted_home_score - pred.predicted_away_score
           /\ pred.predicted_total
                = pred.predicted_home_score + pred.predicted_away_score

(* a prediction at probability exactly 0.5 whose rounded scores tied: the  *)
(* home team is the winner, one point ahead                                *)
C17_Witness ==
    /\ pe.out # <<>>
    /\ pe.out[1].win_probability = 500
    /\ pe.rounded[1].home = pe.rounded[1].away
    /\ pe.out[1].predicted_winner_id = GameOfId(pe.out[1].game_id).home_team_id
    /\ pe.out[1].predicted_home_score = pe.out[1].predicted_away_score + 1

(* C19: a failure while predicting one game does not abort the batch: the  *)
(* loop of predict_games_batch is left only after its last game was tried  *)
C19_FailureDoesNotAbortBatch ==
    [][(pe.pc = "batch" /\ pe'.pc # "batch") => pe.i > Len(pe.batch)]_vars

(* C20: when compute_features returns None for a game, predict_game        *)
(* returns no prediction, the batch holds no Prediction for that game, and *)
(* the loop goes on to the next game                                       *)
C20_NoFeaturesNoPrediction ==
    (/\ pe.pc \in {"batch", "aborted"}
     /\ pe.feat # <<>>
     /\ pe.feat[1].result = <<>>)
    => /\ pe.out = <<>>
       /\ \A k \in 1..Len(pe.predictions) :
             pe.predictions[k].game_id # pe.feat[1].game_id
       /\ pe.pc = "batch"
       /\ pe.i <= Len(pe.batch) + 1
       /\ pe.batch[pe.i - 1].id = pe.feat[1].game_id

(* the batch passed a game without features and then predicted the next    *)
C20_Witness ==
    /\ pe.pc = "batch"
    /\ pe.i = 3
    /\ pe.out # <<>>
    /\ Len(pe.predictions) = 1
    /\ pe.predictions[1].game_id = pe.batch[2].id
    /\ Cardinality(PriorFinal(pe.batch[1].home_team_id, pe.batch[1].game_date)) < 3

(* ---- the largest-remainder split (SpecDistribute) ---- *)
FloorTenths(total, share) == (total * share) \div 120

RemainderOf(total, share) == (total * share) % 120

ProcessedBefore(team_id, date) ==
    {g \in Range(games) : /\ g.id \in basis.roll.games
                          /\ ~MissingScore(g)
                          /\ team_id \in {g.home_team_id, g.away_team_id}
                          /\ g.game_date < date}

(* C28: the snapshot compute_features resolves for a team of an upcoming   *)
(* game (one with no snapshot of its own) has games_played equal to the    *)
(* number of that team's processed games dated before the game             *)
C28_FallbackSnapshotCountsAllPriorGames ==
    (/\ pe.feat # <<>>
     /\ pe.feat[1].sport # NoSport
     /\ GameOfId(pe.feat[1].game_id).status = "scheduled")
    => LET call == pe.feat[1]
           game == GameOfId(call.game_id)
       IN  /\ call.home_stats # <<>>
              => call.home_stats[1].games_played
                   = Cardinality(ProcessedBefore(game.home_team_id, game.game_date))
           /\ call.away_stats # <<>>
              => call.away_stats[1].games_played
                   = Cardinality(ProcessedBefore(game.away_team_id, game.game_date))

(* ---- single calls (SpecCalls) ---- *)
(* C23: the two expectations update_elo uses sum to 1 (to the last         *)
(* thousandth kept), exactly one side has actual = 1, the two rating       *)
(* changes cancel (to 0.05 of a point), and when the home score is the     *)
(* higher the home rating rises and the away rating falls                  *)
C23_ExpectationsAndChangesAreSymmetric ==
    (fcall.pc = "returned" /\ fcall.fn = "game")
    => LET r == fcall.out.elo
           d_home == r.new_home - fcall.args.home_elo
           d_away == r.new_away - fcall.args.away_elo
           game == fcall.args.game
       IN  /\ Abs(r.expected_home + r.expected_away - 1000) <= 1
           /\ r.home_won \in {0, 1000}
           /\ Abs(d_home + d_away) <= 5
           /\ (d_home > 0) = (d_away < 0)
           /\ game.home_score > game.away_score => (d_home > 0 /\ d_away < 0)

(* a home win between unequal ratings moved both ratings *)
C23_Witness ==
    /\ fcall.pc = "returned" /\ fcall.fn = "game"
    /\ fcall.args.game.home_score > fcall.args.game.away_score
    /\ fcall.args.home_elo # fcall.args.away_elo
    /\ fcall.out.elo.new_home > fcall.args.home_elo
    /\ fcall.out.elo.new_away < fcall.args.away_elo

(* C27: the side that update_elo gives actual = 1 is the side whose        *)
(* rolling-history entry of the game has won = true, for every final       *)
(* score, equal scores included                                            *)
C27_BothEnginesCreditTheSameWinner ==
    (fcall.pc = "returned" /\ fcall.fn = "game")
    => /\ (fcall.out.elo.home_won = 1000) = fcall.out.home.won
       /\ (1000 - fcall.out.elo.home_won = 1000) = fcall.out.away.won

(* the number of entries at the end of a history that share the outcome of *)
(* its last entry                                                          *)
RunAtEnd(history) ==
    LET n == Len(history)
    IN  CHOOSE k \in 1..n :
           /\ \A j \in (n - k + 1)..n : history[j].won = history[n].won
           /\ k = n \/ history[n - k].won # history[n].won

(* C24: the streak of a snapshot is +k after k wins in a row that follow a  *)
(* game not won (or the start of the history), -k after k games not won in *)
(* a row, counted over the whole history, and 0 only for an empty history  *)
C24_StreakIsSignedRunOverWholeHistory ==
    (fcall.pc = "returned" /\ fcall.fn = "_compute_stats_from_history")
    => LET history == fcall.args.history
       IN  IF Len(history) = 0
           THEN fcall.out.streak = 0
           ELSE fcall.out.streak = (IF history[Len(history)].won
                                    THEN RunAtEnd(history)
                                    ELSE 0 - RunAtEnd(history))

(* eleven wins in a row: the streak is longer than the last-10 window *)
C24_Witness ==
    /\ fcall.pc = "returned" /\ fcall.fn = "_compute_stats_from_history"
    /\ Len(fcall.args.history) = 11
    /\ fcall.out.streak = 11

(* ---- period shares (SpecPeriods) ---- *)
(* the Final games of the team among its 20 most recent that carry at      *)
(* least num_periods period scores for it                                  *)
GamesWithPeriods(team_id, num_periods) ==
    LET final == {g \in Range(games) : /\ g.status = "Final"
                                       /\ team_id \in {g.home_team_id, g.away_team_id}}
        own(g) == IF g.home_team_id = team_id
                  THEN g.home_period_scores ELSE g.away_period_scores
    IN  {g \in final : /\ Cardinality({h \in final : h.id > g.id}) < 20
                       /\ Len(own(g)) >= num_periods}

RECURSIVE PointsInPeriod(_, _, _)
PointsInPeriod(rows, team_id, i) ==
    IF rows = {} THEN 0
    ELSE LET g == CHOOSE x \in rows : TRUE
         IN  (IF g.home_team_id = team_id
              THEN g.home_period_scores[i] ELSE g.away_period_scores[i])
             + PointsInPeriod(rows \ {g}, team_id, i)

(* C26: _get_period_percentages returns num_periods non-negative shares    *)
(* that sum to 1; share i is the team's points in period i over its        *)
(* regulation points in the games of its 20 most recent Final games that   *)
(* carry at least num_periods period scores, and every share is            *)
(* 1 / num_periods when there is no such game or those points total 0      *)
C26_SharesAreRegulationPointShares ==
    (fcall.pc = "returned" /\ fcall.fn = "_get_period_percentages")
    => LET np    == fcall.args.num_periods
           team  == fcall.args.team_id
           rows  == GamesWithPeriods(team, np)
           pts   == [i \in 1..np |-> PointsInPeriod(rows, team, i)]
           all   == SumSeq(pts, np)
           out   == fcall.out
       IN  /\ Len(out.num) = np
           /\ out.den > 0
           /\ \A i \in 1..np : out.num[i] >= 0
           /\ SumSeq(out.num, np) = out.den
           /\ IF rows = {} \/ all = 0
              THEN \A i \in 1..np : out.num[i] * np = out.den
              ELSE \A i \in 1..np : out.num[i] * all = pts[i] * out.den

(* 21 games: the oldest, with other period scores, is past the limit and   *)
(* the shares are those of the 20 newer games, overtime left out           *)
C26_Witness ==
    /\ fcall.pc = "returned" /\ fcall.fn = "_get_period_percentages"
    /\ Len(games) = 21
    /\ games[21].status = "Final"
    /\ games[1].home_period_scores = <<1, 2, 3, 4>>
    /\ games[2].away_period_scores = <<2, 0, 1, 5, 3>>
    /\ games[21].home_period_scores = <<2, 0, 1, 5, 3>>
    /\ fcall.args.num_periods = 4
    /\ fcall.out = [num |-> <<40, 0, 20, 100>>, den |-> 160]

(* ---- the API client (SpecRequest) ---- *)
(* C22: a call of _request makes at most MAX_RETRIES attempts, sleeps      *)
(* between two attempts, and raises to its caller only when all            *)
(* MAX_RETRIES attempts were made                                          *)
C22_FailureOnlyAfterExhaustion ==
    fcall.fn = "_request"
    => /\ fcall.requests <= 3
       /\ Len(fcall.waits) >= fcall.requests - 1
       /\ fcall.pc = "raised" => fcall.requests = 3

(* ---- the prediction job over all sports (SpecGenerate) ---- *)
ScheduledOf(sport) == {g \in Range(games) : g.sport = sport /\ g.status = "scheduled"}

C30_AtMostOnePredictionPerGame ==
    \A j, k \in 1..Len(pe.stored) :
        pe.stored[j].game_id = pe.stored[k].game_id => j = k

(* ---- two overlapping rating runs (SpecCalc) ---- *)
SingleRun == EloReplayOf(get_sport_config("NBA"), games, Len(games))

WithoutIds(rows) ==
    [k \in 1..Len(rows) |->
        [team_id |-> rows[k].team_id, game_id |-> rows[k].game_id,
         game_date |-> rows[k].game_date, elo_before |-> rows[k].elo_before,
         elo_after |-> rows[k].elo_after]]

(* C29: once one of two overlapping runs on a sport has committed, the     *)
(* tables hold for every game with scores exactly one history row of its   *)
(* home and one of its away team, and the history and the team ratings are *)
(* those of a single run, whatever the other run does                      *)
C29_OverlappingRunsLeaveOneResult ==
    (\E c \in Callers : calc.run[c].end = "committed")
    => /\ \A g \in Range(games) :
             \A t \in Teams :
                Cardinality({k \in 1..Len(db.elo_history) :
                                /\ db.elo_history[k].game_id = g.id
                                /\ db.elo_history[k].team_id = t})
                = IF HasScores(g) /\ t \in {g.home_team_id, g.away_team_id}
                  THEN 1 ELSE 0
       /\ WithoutIds(db.elo_history) = SingleRun.history_records
       /\ \A t \in Teams :
             db.team_elo[t] = IF t \in DOMAIN SingleRun.elos THEN SingleRun.elos[t]
                              ELSE INITIAL_ELO * 100

(* both runs have committed over two games, the second after the first,    *)
(* and the rows of an earlier run were deleted                             *)
C29_Witness ==
    /\ \A c \in Callers : calc.run[c].pc = "done" /\ calc.run[c].end = "committed"
    /\ Len(games) = 2
    /\ Len(db.elo_history) = 4
    /\ db.elo_history[1].id > 8

====
